---- MODULE Spec2Model ----
(***************************************************************************)
(* Token stream, AST setters and value lists of lib/token.cpp.             *)
(*                                                                         *)
(* Token objects are the numbers 1..MaxTok, the null pointer is Null.      *)
(* A lexeme is a sequence of one-character strings.  Every operation of    *)
(* Token is a pure operator from a stream record to a stream record; the   *)
(* actions install the result in the variables.                            *)
(***************************************************************************)
EXTENDS Integers, Sequences, FiniteSets, TLC

\* ------------------------------------------------------------------ bounds
\* Token objects ever allocated in one behaviour (addresses are not reused).
MaxTok == 4
\* Largest count argument tried for deleteNext / deletePrevious.
MaxCount == 2

Null == 0
Tok == 1 .. MaxTok
TokOrNull == 0 .. MaxTok

\* ------------------------------------------------------------- characters
Letters ==
    {"a","b","c","d","e","f","g","h","i","j","k","l","m","n","o","p","q","r",
     "s","t","u","v","w","x","y","z","A","B","C","D","E","F","G","H","I","J",
     "K","L","M","N","O","P","Q","R","S","T","U","V","W","X","Y","Z"}
Digits == {"0","1","2","3","4","5","6","7","8","9"}
DQ == "\""
SQ == "'"

literal_prefix == << <<"u","8">>, <<"u">>, <<"U">>, <<"L">> >>

controlFlowKeywords ==
    { <<"g","o","t","o">>, <<"d","o">>, <<"i","f">>, <<"e","l","s","e">>,
      <<"f","o","r">>, <<"w","h","i","l","e">>, <<"s","w","i","t","c","h">>,
      <<"c","a","s","e">>, <<"b","r","e","a","k">>,
      <<"c","o","n","t","i","n","u","e">>, <<"r","e","t","u","r","n">> }

stdTypes ==
    { <<"b","o","o","l">>, <<"_","B","o","o","l">>, <<"c","h","a","r">>,
      <<"d","o","u","b","l","e">>, <<"f","l","o","a","t">>, <<"i","n","t">>,
      <<"l","o","n","g">>, <<"s","h","o","r","t">>, <<"s","i","z","e","_","t">>,
      <<"v","o","i","d">>, <<"w","c","h","a","r","_","t">> }

\* std::string::compare(0, n, w) == 0
StartsWithN(s, n, w) ==
    LET k == IF n < Len(s) THEN n ELSE Len(s)
    IN  SubSeq(s, 1, k) = w

endsWith(s, q) == Len(s) > 0 /\ s[Len(s)] = q

isStringCharLiteral(s, q) ==
    IF ~endsWith(s, q) THEN FALSE
    ELSE IF s[1] = q /\ Len(s) > 1 THEN TRUE
    ELSE \E i \in 1 .. Len(literal_prefix) :
            LET p == literal_prefix[i]
            IN  Len(s) + 1 > Len(p) /\ StartsWithN(s, Len(p) + 1, p \o <<q>>)

\* ----------------------------------------------------------- classification
NoFlags == [isControlFlowKeyword |-> FALSE, isStandardType |-> FALSE, isLong |-> FALSE]

\* The kind chosen by the if/else chain of update_property_info.  s is the
\* lexeme, varId the token's variable id, linked whether mLink is set, kind the
\* kind the token had before.
ClassifyKind(s, varId, linked, kind) ==
    IF s = <<>> THEN "eNone"
    ELSE IF s = <<"t","r","u","e">> \/ s = <<"f","a","l","s","e">> THEN "eBoolean"
    ELSE IF isStringCharLiteral(s, DQ) THEN "eString"
    ELSE IF isStringCharLiteral(s, SQ) THEN "eChar"
    ELSE IF s[1] \in Letters \/ s[1] = "_" \/ s[1] = "$"
         THEN IF varId # 0 THEN "eVariable"
              ELSE IF kind \notin {"eVariable", "eFunction", "eType", "eKeyword"}
                   THEN "eName" ELSE kind
    ELSE IF s[1] \in Digits \/ (Len(s) > 1 /\ s[1] = "-" /\ s[2] \in Digits)
         THEN "eNumber"
    ELSE IF s = <<"=">> \/ s = <<"<","<","=">> \/ s = <<">",">","=">>
            \/ (Len(s) = 2 /\ s[2] = "=" /\ s[1] \in {"+","-","*","/","%","&","^","|"})
         THEN "eAssignmentOp"
    ELSE IF Len(s) = 1 /\ s[1] \in {",","[","]","(",")","?",":"} THEN "eExtendedOp"
    ELSE IF s = <<"<","<">> \/ s = <<">",">">>
            \/ (Len(s) = 1 /\ s[1] \in {"+","-","*","/","%"})
         THEN "eArithmeticalOp"
    ELSE IF Len(s) = 1 /\ s[1] \in {"&","|","^","~"} THEN "eBitOp"
    ELSE IF Len(s) <= 2 /\ (s = <<"&","&">> \/ s = <<"|","|">> \/ s = <<"!">>)
         THEN "eLogicalOp"
    ELSE IF Len(s) <= 2 /\ ~linked
            /\ s \in { <<"=","=">>, <<"!","=">>, <<"<">>, <<"<","=">>, <<">">>, <<">","=">> }
         THEN "eComparisonOp"
    ELSE IF Len(s) = 2 /\ (s = <<"+","+">> \/ s = <<"-","-">>) THEN "eIncDecOp"
    ELSE IF Len(s) = 1 /\ (s[1] \in {"{","}"} \/ (linked /\ s[1] \in {"<",">"}))
         THEN "eBracket"
    ELSE "eOther"

\* Index of the first literal prefix the lexeme starts with (0: none).
PrefixIndex(s, kind) ==
    LET q == IF kind = "eString" THEN DQ ELSE SQ
        hits == { i \in 1 .. Len(literal_prefix) :
                    StartsWithN(s, Len(literal_prefix[i]) + 1, literal_prefix[i] \o <<q>>) }
    IN  IF hits = {} THEN 0 ELSE CHOOSE i \in hits : \A j \in hits : i <= j

\* tk is [str, kind, flags]; strips the literal prefix of a string or char.
update_property_char_string_literal(tk) ==
    IF tk.kind \notin {"eString", "eChar"} THEN tk
    ELSE LET i == PrefixIndex(tk.str, tk.kind)
         IN  IF i = 0 THEN tk
             ELSE [tk EXCEPT !.str = SubSeq(tk.str, Len(literal_prefix[i]) + 1, Len(tk.str)),
                             !.flags.isLong = (literal_prefix[i] # <<"u","8">>)]

\* the flag is set but the kind is left as the rule chain chose it
isStandardType_noCoerce(tk) ==
    [tk EXCEPT !.flags.isStandardType = (tk.str \in stdTypes)]

update_property_isStandardType(tk) ==
    IF Len(tk.str) < 3 THEN [tk EXCEPT !.flags.isStandardType = FALSE]
    ELSE IF tk.str \in stdTypes
         THEN [tk EXCEPT !.flags.isStandardType = TRUE, !.kind = "eType"]
         ELSE [tk EXCEPT !.flags.isStandardType = FALSE]

\* tk is [str, kind, flags]; varId and linked are read from the token.
update_property_info(tk, varId, linked) ==
    LET t1 == [tk EXCEPT !.flags.isControlFlowKeyword = (tk.str \in controlFlowKeywords),
                         !.kind = ClassifyKind(tk.str, varId, linked, tk.kind)]
    IN  update_property_isStandardType(update_property_char_string_literal(t1))

\* ------------------------------------------------------------ stream state
VARIABLES
    live,        \* the Token objects that exist
    allocated,   \* how many Token objects were ever constructed
    mNext, mPrevious, mLink,      \* Token -> Token or Null
    mStr, mTokType, mFlags,       \* Token -> lexeme, kind, flag record
    mImpl,       \* Token -> the TokenImpl it owns (NoImpl: null pointer)
    front, back, \* the TokensFrontBack anchor
    fault        \* "none", "InternalError" (thrown by the last call), or a crash

streamVars == << live, allocated, mNext, mPrevious, mLink, mStr, mTokType, mFlags,
                 mImpl, front, back, fault >>

\* TokenImpl: null tells a null mImpl from an object, the rest are its fields.
NoImpl ==
    [null |-> TRUE, varId |-> 0, progress |-> 0, op1 |-> 0, op2 |-> 0, parent |-> 0,
     lineNumber |-> 0, fileIndex |-> 0]
NewImpl == [NoImpl EXCEPT !.null = FALSE]

\* The stream as one record, so that operations are operators on it.
S ==
    [live |-> live, alloc |-> allocated, next |-> mNext, prev |-> mPrevious,
     link |-> mLink, str |-> mStr, kind |-> mTokType, flags |-> mFlags,
     impl |-> mImpl, front |-> front, back |-> back, fault |-> fault]

\* the variables hold stream s
Holds(s) ==
    /\ live = s.live /\ allocated = s.alloc
    /\ mNext = s.next /\ mPrevious = s.prev /\ mLink = s.link
    /\ mStr = s.str /\ mTokType = s.kind /\ mFlags = s.flags
    /\ mImpl = s.impl /\ front = s.front /\ back = s.back
    /\ fault = s.fault

Install(s) ==
    /\ live' = s.live /\ allocated' = s.alloc
    /\ mNext' = s.next /\ mPrevious' = s.prev /\ mLink' = s.link
    /\ mStr' = s.str /\ mTokType' = s.kind /\ mFlags' = s.flags
    /\ mImpl' = s.impl /\ front' = s.front /\ back' = s.back
    /\ fault' = s.fault

Crashed(s) == s.fault \in {"nullptr", "freed"}
Fault(s, what) == [s EXCEPT !.fault = what]
\* p is a pointer to a destroyed Token
Dangling(s, p) == p # Null /\ p \notin s.live

\* Token::Token: a fresh object, all pointers null, kind eNone, own TokenImpl.
NewToken(s) ==
    LET k == s.alloc + 1
    IN  [s EXCEPT !.alloc = k, !.live = @ \cup {k},
                  !.next[k] = Null, !.prev[k] = Null, !.link[k] = Null,
                  !.str[k] = <<>>, !.kind[k] = "eNone", !.flags[k] = NoFlags,
                  !.impl[k] = NewImpl]

\* delete tok: the object is gone together with the TokenImpl it owns.
Destroy(s, n) ==
    [s EXCEPT !.live = @ \ {n},
              !.next[n] = Null, !.prev[n] = Null, !.link[n] = Null,
              !.str[n] = <<>>, !.kind[n] = "eNone", !.flags[n] = NoFlags,
              !.impl[n] = NoImpl]

\* Token::str(s): assign the lexeme, reset the variable id, classify again.
StrSet(s, t, lexeme) ==
    LET tk == update_property_info(
                  [str |-> lexeme, kind |-> s.kind[t], flags |-> s.flags[t]],
                  0, s.link[t] # Null)
    IN  [s EXCEPT !.str[t] = tk.str, !.kind[t] = tk.kind, !.flags[t] = tk.flags,
                  !.impl[t].varId = 0]

\* ------------------------------------------------------- stream mutation
RECURSIVE deleteNextLoop(_, _, _)
deleteNextLoop(s, t, count) ==
    IF s.next[t] = Null \/ count <= 0 THEN s
    ELSE LET n == s.next[t]
             peer == s.link[n]
         IN  IF Dangling(s, n) \/ Dangling(s, peer) THEN Fault(s, "freed")
             ELSE LET s1 == IF peer # Null /\ s.link[peer] = n
                            THEN [s EXCEPT !.link[peer] = Null] ELSE s
                      s2 == [s1 EXCEPT !.next[t] = s1.next[n]]
                  IN  deleteNextLoop(Destroy(s2, n), t, count - 1)

\* deleteNext without "mNext->previous(this)"
deleteNext_keepsPrevious(s, t, count) ==
    LET s1 == deleteNextLoop(s, t, count)
    IN  IF Crashed(s1) \/ s1.next[t] # Null THEN s1 ELSE [s1 EXCEPT !.back = t]

deleteNext(s, t, count) ==
    LET s1 == deleteNextLoop(s, t, count)
    IN  IF Crashed(s1) THEN s1
        ELSE IF s1.next[t] # Null THEN [s1 EXCEPT !.prev[s1.next[t]] = t]
        ELSE [s1 EXCEPT !.back = t]

RECURSIVE deletePreviousLoop(_, _, _)
deletePreviousLoop(s, t, count) ==
    IF s.prev[t] = Null \/ count <= 0 THEN s
    ELSE LET p == s.prev[t]
             peer == s.link[p]
         IN  IF Dangling(s, p) \/ Dangling(s, peer) THEN Fault(s, "freed")
             ELSE LET s1 == IF peer # Null /\ s.link[peer] = p
                            THEN [s EXCEPT !.link[peer] = Null] ELSE s
                      s2 == [s1 EXCEPT !.prev[t] = s1.prev[p]]
                  IN  deletePreviousLoop(Destroy(s2, p), t, count - 1)

deletePrevious(s, t, count) ==
    LET s1 == deletePreviousLoop(s, t, count)
    IN  IF Crashed(s1) THEN s1
        ELSE IF s1.prev[t] # Null THEN [s1 EXCEPT !.next[s1.prev[t]] = t]
        ELSE [s1 EXCEPT !.front = t]

swapWithNext(s, t) ==
    IF s.next[t] = Null THEN s
    ELSE LET n == s.next[t]
             s1 == [s EXCEPT !.str[t] = s.str[n], !.str[n] = s.str[t],
                             !.kind[t] = s.kind[n], !.kind[n] = s.kind[t],
                             !.flags[t] = s.flags[n], !.flags[n] = s.flags[t],
                             !.impl[t] = s.impl[n], !.impl[n] = s.impl[t]]
             l1 == s1.link[n]
         IN  IF Dangling(s1, l1) THEN Fault(s1, "freed")
             ELSE LET s2 == IF l1 # Null THEN [s1 EXCEPT !.link[l1] = t] ELSE s1
                      l2 == s2.link[t]
                  IN  IF Dangling(s2, l2) THEN Fault(s2, "freed")
                      ELSE LET s3 == IF l2 # Null THEN [s2 EXCEPT !.link[l2] = n] ELSE s2
                           IN  [s3 EXCEPT !.link[t] = s3.link[n], !.link[n] = s3.link[t]]

takeData(s, t, from) ==
    LET s1 == [s EXCEPT !.str[t] = s.str[from], !.kind[t] = s.kind[from],
                        !.flags[t] = s.flags[from],
                        !.impl[t] = s.impl[from], !.impl[from] = NoImpl,
                        !.link[t] = s.link[from]]
        l == s1.link[t]
    IN  IF l = Null THEN s1
        ELSE IF Dangling(s1, l) THEN Fault(s1, "freed")
        ELSE [s1 EXCEPT !.link[l] = t]

deleteThis(s, t) ==
    IF s.next[t] # Null
    THEN LET s1 == takeData(s, t, s.next[t])
         IN  IF Crashed(s1) THEN s1
             ELSE deleteNext([s1 EXCEPT !.link[s1.next[t]] = Null], t, 1)
    ELSE IF s.prev[t] # Null /\ s.prev[s.prev[t]] # Null
    THEN LET s1 == takeData(s, t, s.prev[t])
             toDelete == s.prev[t]
         IN  IF Crashed(s1) THEN s1
             ELSE LET s2 == [s1 EXCEPT !.prev[t] = s1.prev[toDelete]]
                      s3 == [s2 EXCEPT !.next[s2.prev[t]] = t]
                  IN  Destroy(s3, toDelete)
    ELSE StrSet(s, t, <<>>)

\* a walk that stays where it starts
lastFrom_stay(s, t, fuel) == t

\* the last token reached from t by next (fuel stops a walk on a cyclic list)
RECURSIVE lastFrom(_, _, _)
lastFrom(s, t, fuel) ==
    IF s.next[t] = Null \/ fuel = 0 THEN t ELSE lastFrom(s, s.next[t], fuel - 1)

\* for (tok = from; tok != stop; tok = tok->next()) tok->progress = value
RECURSIVE setProgress(_, _, _, _, _)
setProgress(s, from, stop, value, fuel) ==
    IF from = stop \/ fuel = 0 THEN s
    ELSE IF from = Null THEN Fault(s, "nullptr")
    ELSE setProgress([s EXCEPT !.impl[from].progress = value],
                     s.next[from], stop, value, fuel - 1)

replace(s, replaceThis, start, end) ==
    LET a1 == IF s.prev[start] # Null
              THEN [s EXCEPT !.next[s.prev[start]] = s.next[end]] ELSE s
        a2 == IF a1.next[end] # Null
              THEN [a1 EXCEPT !.prev[a1.next[end]] = a1.prev[start]] ELSE a1
        a3 == IF a2.prev[replaceThis] # Null
              THEN [a2 EXCEPT !.next[a2.prev[replaceThis]] = start] ELSE a2
        a4 == IF a3.next[replaceThis] # Null
              THEN [a3 EXCEPT !.prev[a3.next[replaceThis]] = end] ELSE a3
        a5 == [a4 EXCEPT !.prev[start] = a4.prev[replaceThis]]
        a6 == [a5 EXCEPT !.next[end] = a5.next[replaceThis]]
        wasBack == a6.back = end
        end2 == IF wasBack THEN lastFrom(a6, end, MaxTok) ELSE end
        a7 == IF wasBack THEN [a6 EXCEPT !.back = end2] ELSE a6
        a8 == setProgress(a7, start, a7.next[end2],
                          a7.impl[replaceThis].progress, MaxTok + 1)
    IN  IF Crashed(a8) THEN a8 ELSE Destroy(a8, replaceThis)

move(s, srcStart, srcEnd, newLocation) ==
    IF s.prev[srcStart] = Null THEN Fault(s, "nullptr")
    ELSE LET a1 == [s EXCEPT !.next[s.prev[srcStart]] = s.next[srcEnd]]
         IN  IF a1.next[srcEnd] = Null THEN Fault(a1, "nullptr")
             ELSE LET a2 == [a1 EXCEPT !.prev[a1.next[srcEnd]] = a1.prev[srcStart]]
                      a3 == [a2 EXCEPT !.next[srcEnd] = a2.next[newLocation]]
                      a4 == [a3 EXCEPT !.prev[srcStart] = newLocation]
                  IN  IF a4.next[newLocation] = Null THEN Fault(a4, "nullptr")
                      ELSE LET a5 == [a4 EXCEPT !.prev[a4.next[newLocation]] = srcEnd]
                               a6 == [a5 EXCEPT !.next[newLocation] = srcStart]
                           IN  setProgress(a6, srcStart, a6.next[srcEnd],
                                           a6.impl[newLocation].progress, MaxTok + 1)

\* a new token that takes the progress value only
inherit_progressOnly(s, newToken, t) ==
    [s EXCEPT !.impl[newToken].progress = s.impl[t].progress]

\* the new token takes the receiver's line number, file index and progress value
inherit(s, newToken, t) ==
    [s EXCEPT !.impl[newToken].lineNumber = s.impl[t].lineNumber,
              !.impl[newToken].fileIndex = s.impl[t].fileIndex,
              !.impl[newToken].progress = s.impl[t].progress]

insertToken(s, t, tokenStr, prepend) ==
    IF s.str[t] = <<>>
    THEN StrSet(s, t, tokenStr)
    ELSE LET s0 == NewToken(s)
             newToken == s0.alloc
             s1 == StrSet(s0, newToken, tokenStr)
             s2 == inherit(s1, newToken, t)
         IN  IF prepend
             THEN LET b1 == IF s2.prev[t] # Null
                            THEN [s2 EXCEPT !.prev[newToken] = s2.prev[t],
                                            !.next[s2.prev[t]] = newToken]
                            ELSE [s2 EXCEPT !.front = newToken]
                  IN  [b1 EXCEPT !.prev[t] = newToken, !.next[newToken] = t]
             ELSE LET b1 == IF s2.next[t] # Null
                            THEN [s2 EXCEPT !.next[newToken] = s2.next[t],
                                            !.prev[s2.next[t]] = newToken]
                            ELSE [s2 EXCEPT !.back = newToken]
                  IN  [b1 EXCEPT !.next[t] = newToken, !.prev[newToken] = t]

RECURSIVE eraseLoop(_, _, _)
eraseLoop(s, begin, end) ==
    IF Crashed(s) \/ s.next[begin] = Null \/ s.next[begin] = end THEN s
    ELSE eraseLoop(deleteNext(s, begin, 1), begin, end)

eraseTokens(s, begin, end) ==
    IF begin = Null \/ begin = end THEN s ELSE eraseLoop(s, begin, end)

createMutualLinks(s, begin, end) ==
    [s EXCEPT !.link[begin] = end, !.link[end] = begin]

\* ------------------------------------------------------------- AST setters
\* while (tok->mAstParent) { if (!visited.insert(parent).second) throw; tok = parent; }
RECURSIVE astRoot(_, _, _)
astRoot(s, tok, visitedParents) ==
    LET p == s.impl[tok].parent
    IN  IF p = Null THEN [tok |-> tok, res |-> "root"]
        ELSE IF p \in visitedParents THEN [tok |-> tok, res |-> "cyclic"]
        ELSE IF Dangling(s, p) THEN [tok |-> tok, res |-> "freed"]
        ELSE astRoot(s, p, visitedParents \cup {p})

astOperand1(s, this, tok) ==
    LET old == s.impl[this].op1
    IN  IF Dangling(s, old) THEN Fault(s, "freed")
        ELSE LET s1 == IF old # Null THEN [s EXCEPT !.impl[old].parent = Null] ELSE s
             IN  IF tok = Null THEN [s1 EXCEPT !.impl[this].op1 = Null]
                 ELSE LET r == astRoot(s1, tok, {})
                      IN  IF r.res = "cyclic" THEN Fault(s1, "InternalError")
                          ELSE IF r.res = "freed" THEN Fault(s1, "freed")
                          ELSE [s1 EXCEPT !.impl[r.tok].parent = this,
                                          !.impl[this].op1 = r.tok]

astOperand2(s, this, tok) ==
    LET old == s.impl[this].op2
    IN  IF Dangling(s, old) THEN Fault(s, "freed")
        ELSE LET s1 == IF old # Null THEN [s EXCEPT !.impl[old].parent = Null] ELSE s
             IN  IF tok = Null THEN [s1 EXCEPT !.impl[this].op2 = Null]
                 ELSE LET r == astRoot(s1, tok, {})
                      IN  IF r.res = "cyclic" THEN Fault(s1, "InternalError")
                          ELSE IF r.res = "freed" THEN Fault(s1, "freed")
                          ELSE [s1 EXCEPT !.impl[r.tok].parent = this,
                                          !.impl[this].op2 = r.tok]

\* ------------------------------------------------------ stream construction
\* Lexemes the tokenizer and insertToken put into the stream.
Lexemes == { <<"a">>, <<"<">> }

EmptyStream ==
    [live |-> {}, alloc |-> 0,
     next |-> [t \in Tok |-> Null], prev |-> [t \in Tok |-> Null],
     link |-> [t \in Tok |-> Null], str |-> [t \in Tok |-> <<>>],
     kind |-> [t \in Tok |-> "eNone"], flags |-> [t \in Tok |-> NoFlags],
     impl |-> [t \in Tok |-> NoImpl], front |-> Null, back |-> Null,
     fault |-> "none"]

\* tok2->progress = count++ * 100 / total_count, from the first token on
RECURSIVE assignProgressFrom(_, _, _, _)
assignProgressFrom(s, tok, count, total) ==
    IF tok = Null THEN s
    ELSE assignProgressFrom([s EXCEPT !.impl[tok].progress = (count * 100) \div total],
                            s.next[tok], count + 1, total)

assignProgressValues(s) == assignProgressFrom(s, s.front, 0, Cardinality(s.live))

\* The tokenizer's builder: the first token is made the front and the back,
\* every further one is inserted after the back.
RECURSIVE appendTokens(_, _)
appendTokens(s, strs) ==
    IF strs = <<>> THEN s
    ELSE IF s.back = Null
         THEN LET s0 == NewToken(s)
                  s1 == [s0 EXCEPT !.front = s0.alloc, !.back = s0.alloc]
              IN  appendTokens(StrSet(s1, s0.alloc, Head(strs)), Tail(strs))
         ELSE appendTokens(insertToken(s, s.back, Head(strs), FALSE), Tail(strs))

BuildStream(strs) == assignProgressValues(appendTokens(EmptyStream, strs))

\* Lexeme sequences of length n
LexSeqs(n) == [1 .. n -> Lexemes]

\* ------------------------------------------------------- argument contracts
\* the tokens from a to b following next, {} when b is not reached from a
RECURSIVE rangeSet(_, _, _, _)
rangeSet(s, a, b, fuel) ==
    IF a = Null \/ fuel = 0 \/ a \notin s.live THEN {}
    ELSE IF a = b THEN {a}
    ELSE LET r == rangeSet(s, s.next[a], b, fuel - 1)
         IN  IF r = {} THEN {} ELSE r \cup {a}

IsRange(s, a, b) == rangeSet(s, a, b, MaxTok) # {}

\* -------------------------------------------------------------- value lists
VARIABLES
    mValues,     \* the receiver's value list: [null, list]
    tokenVarId,  \* the receiver's mVarId
    lastValue,   \* argument of the last addValue call
    lastResult,  \* what it returned: "none" before any call, "true", "false"
    prevValues   \* mValues before the last call

valueVars == << mValues, tokenVarId, lastValue, lastResult, prevValues >>

\* The last call of a pattern function: its name ("none" before any call), its
\* arguments and what it returned ("true", "false" or "InternalError").
VARIABLES callName, callTok, callPattern, callVarid, callResult

callVars == << callName, callTok, callPattern, callVarid, callResult >>

\* The last call of a const accessor: its name ("none" before any call), its
\* arguments (a record) and what it returned.
VARIABLES queryName, queryArgs, queryResult

queryVars == << queryName, queryArgs, queryResult >>

\* Settings::mTerminated, the static flag all threads share
VARIABLES mTerminated

settingsVars == << mTerminated >>

\* ProjectFile (gui/projectfile.cpp) and the file it reads
VARIABLES
    mProject,    \* the members of the ProjectFile
    xmlFile,     \* the file named mFilename: [opens, events]
    xmlReader,   \* the QXmlStreamReader of the running read(): [pos, cur, calls]
    readCall,    \* the running read(): where it is, and its locals
    readsDone,   \* how many read() calls have returned
    firstRead    \* mProject when the first read() returned

projectVars == << mProject, xmlFile, xmlReader, readCall, readsDone, firstRead >>
vars == << streamVars, valueVars, callVars, queryVars, settingsVars, projectVars >>

\* ProjectFile::clear
clear(project) ==
    [project EXCEPT
        !.mRootPath = "", !.mBuildDir = "", !.mImportProject = "",
        !.mIncludeDirs = <<>>, !.mDefines = <<>>, !.mUndefines = <<>>,
        !.mPaths = <<>>, !.mExcludedPaths = <<>>, !.mLibraries = <<>>,
        !.mPlatform = "", !.mSuppressions = <<>>, !.mAddons = <<>>,
        !.mClangAnalyzer = FALSE, !.mClangTidy = FALSE,
        !.mAnalyzeAllVsConfigs = FALSE, !.mCheckHeaders = TRUE,
        !.mCheckUnusedTemplates = FALSE, !.mMaxCtuDepth = 10,
        !.mCheckAllFunctionParameterValues = FALSE,
        !.mCheckUnknownFunctionReturn = <<>>]

\* ProjectFile::ProjectFile(parent): default-constructed members, then clear()
NewProject ==
    clear([mRootPath |-> "", mBuildDir |-> "", mImportProject |-> "",
           mAnalyzeAllVsConfigs |-> FALSE, mIncludeDirs |-> <<>>, mDefines |-> <<>>,
           mUndefines |-> <<>>, mPaths |-> <<>>, mExcludedPaths |-> <<>>,
           mLibraries |-> <<>>, mPlatform |-> "", mSuppressions |-> <<>>,
           mAddons |-> <<>>, mTags |-> <<>>, mClangAnalyzer |-> FALSE,
           mClangTidy |-> FALSE, mCheckHeaders |-> FALSE,
           mCheckUnusedTemplates |-> FALSE, mMaxCtuDepth |-> 0,
           mCheckAllFunctionParameterValues |-> FALSE,
           mCheckUnknownFunctionReturn |-> <<>>])

\* an event of the reader: token type, name(), attributes(), text()
XmlEvent(type, name, attrs, text) ==
    [type |-> type, name |-> name, attrs |-> attrs, text |-> text]

\* a reader that has read nothing yet
NewReader == [pos |-> 0, cur |-> XmlEvent("NoToken", "", {}, ""), calls |-> 0]

\* no read() is running; the locals are those of bool read() and the position
\* in its chain of ifs
NoRead ==
    [pc |-> "idle", insideProject |-> FALSE, projectTagFound |-> FALSE,
     ifIndex |-> 0, tools |-> <<>>, ret |-> FALSE]

NoProjectFile ==
    /\ mProject = NewProject /\ xmlFile = [opens |-> FALSE, events |-> <<>>]
    /\ xmlReader = NewReader /\ readCall = NoRead
    /\ readsDone = 0 /\ firstRead = NewProject

\* Don't handle more than 10 values
ValuesLimit == 10

ValueKinds == {"Possible", "Known", "Inconclusive"}

\* ValueFlow::Value::Value(long long val)
MkValue(val) ==
    [valueType |-> "INT", intvalue |-> val, tokvalue |-> Null, floatValue |-> 0,
     moveKind |-> "NonMovedVariable", varvalue |-> val, condition |-> Null,
     varId |-> 0, conditional |-> FALSE, defaultArg |-> FALSE,
     lifetimeKind |-> "Object", lifetimeScope |-> "Local",
     valueKind |-> "Possible"]

NullValues == [null |-> TRUE, list |-> <<>>]

\* a purge that removes only the first value of the type
removeSameType_first(list, vt) ==
    LET hits == { i \in 1 .. Len(list) : list[i].valueType = vt }
    IN  IF hits = {} THEN list
        ELSE LET k == CHOOSE i \in hits : \A j \in hits : i <= j
             IN  [i \in 1 .. Len(list) - 1 |-> IF i < k THEN list[i] ELSE list[i + 1]]

\* a purge that removes nothing
removeSameType_none(list, vt) == list

\* mValues->remove_if(x.valueType == value.valueType)
removeSameType(list, vt) == SelectSeq(list, LAMBDA x : x.valueType # vt)

\* the loop's three "continue" tests: FALSE when the loop goes on to the next value
sameValue(it, value, str) ==
    /\ it.intvalue = value.intvalue
    /\ it.valueType = value.valueType
    /\ ~ (/\ value.valueType \in {"TOK", "LIFETIME"}
          /\ it.tokvalue # value.tokvalue
          /\ str[it.tokvalue] # str[value.tokvalue])

\* a loop that never recognises an existing value
firstSame_never(list, value, str) == 0

\* position at which the loop stops (0: it ran to the end)
firstSame(list, value, str) ==
    LET hits == { i \in 1 .. Len(list) : sameValue(list[i], value, str) }
    IN  IF hits = {} THEN 0 ELSE CHOOSE i \in hits : \A j \in hits : i <= j

\* if (v.varId == 0) v.varId = mImpl->mVarId
fillVarId(value, varId) ==
    IF value.varId = 0 THEN [value EXCEPT !.varId = varId] ELSE value

\* the limit tested with > instead of >=
isFull_offByOne(list) == Len(list) > ValuesLimit

\* if (mImpl->mValues->size() >= 10U) return false
isFull(list) == Len(list) >= ValuesLimit

\* replace whatever the old value's kind is
replacesExisting_anyOld(it, value) == value.valueKind # "Inconclusive"

\* same value, but old value is inconclusive so replace it
replacesExisting(it, value) ==
    it.valueKind = "Inconclusive" /\ value.valueKind # "Inconclusive"

\* every new value goes to the back
pushValue_back(list, v) == Append(list, v)

\* if (v.isKnown() && v.isIntValue()) push_front(v); else push_back(v);
pushValue(list, v) ==
    IF v.valueKind = "Known" /\ v.valueType = "INT" THEN <<v>> \o list ELSE Append(list, v)

\* Token::addValue: [values, ret]
addValue(mv, varId, str, value) ==
    LET purged == IF value.valueKind = "Known" /\ ~mv.null
                  THEN [mv EXCEPT !.list = removeSameType(@, value.valueType)]
                  ELSE mv
    IN  IF ~purged.null
        THEN IF isFull(purged.list)
             THEN [values |-> purged, ret |-> FALSE]
             ELSE LET i == firstSame(purged.list, value, str)
                      v == fillVarId(value, varId)
                  IN  IF i # 0
                      THEN IF replacesExisting(purged.list[i], value)
                           THEN [values |-> [purged EXCEPT !.list[i] = v], ret |-> TRUE]
                           ELSE [values |-> purged, ret |-> FALSE]
                      ELSE [values |-> [purged EXCEPT !.list = pushValue(@, v)], ret |-> TRUE]
        ELSE [values |-> [null |-> FALSE, list |-> <<fillVarId(value, varId)>>],
              ret |-> TRUE]

\* ----------------------------------------------------------------- actions
Running == fault \notin {"nullptr", "freed"}
Cur == [S EXCEPT !.fault = "none"]

InsertToken(t, tokenStr, prepend) ==
    /\ Running /\ t \in live
    /\ (mStr[t] = <<>> \/ allocated < MaxTok)
    /\ Install(insertToken(Cur, t, tokenStr, prepend))
    /\ UNCHANGED << valueVars, callVars, queryVars, settingsVars, projectVars >>

DeleteNext(t, count) ==
    /\ Running /\ t \in live
    /\ Install(deleteNext(Cur, t, count))
    /\ UNCHANGED << valueVars, callVars, queryVars, settingsVars, projectVars >>

DeletePrevious(t, count) ==
    /\ Running /\ t \in live
    /\ Install(deletePrevious(Cur, t, count))
    /\ UNCHANGED << valueVars, callVars, queryVars, settingsVars, projectVars >>

DeleteThis(t) ==
    /\ Running /\ t \in live
    /\ Install(deleteThis(Cur, t))
    /\ UNCHANGED << valueVars, callVars, queryVars, settingsVars, projectVars >>

SwapWithNext(t) ==
    /\ Running /\ t \in live
    /\ Install(swapWithNext(Cur, t))
    /\ UNCHANGED << valueVars, callVars, queryVars, settingsVars, projectVars >>

Move(srcStart, srcEnd, newLocation) ==
    /\ Running /\ {srcStart, srcEnd, newLocation} \subseteq live
    /\ IsRange(S, srcStart, srcEnd)
    /\ newLocation \notin rangeSet(S, srcStart, srcEnd, MaxTok)
    /\ Install(move(Cur, srcStart, srcEnd, newLocation))
    /\ UNCHANGED << valueVars, callVars, queryVars, settingsVars, projectVars >>

Replace(replaceThis, start, end) ==
    /\ Running /\ {replaceThis, start, end} \subseteq live
    /\ IsRange(S, start, end)
    /\ replaceThis \notin rangeSet(S, start, end, MaxTok)
    /\ Install(replace(Cur, replaceThis, start, end))
    /\ UNCHANGED << valueVars, callVars, queryVars, settingsVars, projectVars >>

EraseTokens(begin, end) ==
    /\ Running /\ begin \in live /\ end \in live \cup {Null}
    /\ Install(eraseTokens(Cur, begin, end))
    /\ UNCHANGED << valueVars, callVars, queryVars, settingsVars, projectVars >>

\* The callers link an opening bracket to the closing bracket after it, both
\* without a peer so far.
CreateMutualLinks(begin, end) ==
    /\ Running /\ {begin, end} \subseteq live /\ begin # end
    /\ IsRange(S, begin, end)
    /\ mLink[begin] = Null /\ mLink[end] = Null
    /\ Install(createMutualLinks(Cur, begin, end))
    /\ UNCHANGED << valueVars, callVars, queryVars, settingsVars, projectVars >>

AstOperand1(this, tok) ==
    /\ Running /\ this \in live /\ tok \in live \cup {Null}
    /\ Install(astOperand1(Cur, this, tok))
    /\ UNCHANGED << valueVars, callVars, queryVars, settingsVars, projectVars >>

AstOperand2(this, tok) ==
    /\ Running /\ this \in live /\ tok \in live \cup {Null}
    /\ Install(astOperand2(Cur, this, tok))
    /\ UNCHANGED << valueVars, callVars, queryVars, settingsVars, projectVars >>

\* ------------------------------------------- specification: stream mutation
\* Length of the streams the tokenizer hands over.
InitLen == 3


\* no pattern function and no accessor has been called
NoCall ==
    /\ callName = "none" /\ callTok = Null /\ callPattern = <<>>
    /\ callVarid = 0 /\ callResult = "none"
    /\ queryName = "none" /\ queryArgs = <<>> /\ queryResult = Null
    /\ mTerminated = FALSE
    /\ NoProjectFile

InitNoValues ==
    /\ mValues = NullValues /\ tokenVarId = 0
    /\ lastValue = MkValue(0) /\ lastResult = "none" /\ prevValues = NullValues
    /\ NoCall

\* The stream as the tokenizer has built it, before links, AST and progress.
InitList ==
    /\ \E n \in 1 .. InitLen : \E strs \in LexSeqs(n) : Holds(appendTokens(EmptyStream, strs))
    /\ InitNoValues

NextList ==
    \/ \E t \in Tok, l \in Lexemes, b \in BOOLEAN : InsertToken(t, l, b)
    \/ \E t \in Tok, c \in 1 .. MaxCount : DeleteNext(t, c)
    \/ \E t \in Tok, c \in 1 .. MaxCount : DeletePrevious(t, c)
    \/ \E t \in Tok : DeleteThis(t)
    \/ \E t \in Tok : SwapWithNext(t)
    \/ \E a, b, c \in Tok : Move(a, b, c)
    \/ \E a, b, c \in Tok : Replace(a, b, c)
    \/ \E a \in Tok, b \in TokOrNull : EraseTokens(a, b)

SpecList == InitList /\ [][NextList]_vars

\* ---------------------------------------- specification: links and mutation
\* The stream with its progress values assigned, which tell the TokenImpl
\* objects apart; brackets are linked by the actions.
InitLink ==
    /\ \E n \in 1 .. InitLen : \E strs \in LexSeqs(n) : Holds(BuildStream(strs))
    /\ InitNoValues

NextLink ==
    \/ \E a, b \in Tok : CreateMutualLinks(a, b)
    \/ \E t \in Tok, c \in 1 .. MaxCount : DeleteNext(t, c)
    \/ \E t \in Tok, c \in 1 .. MaxCount : DeletePrevious(t, c)
    \/ \E t \in Tok : DeleteThis(t)
    \/ \E t \in Tok : SwapWithNext(t)
    \/ \E a, b, c \in Tok : Replace(a, b, c)
    \/ \E a \in Tok, b \in TokOrNull : EraseTokens(a, b)

SpecLink == InitLink /\ [][NextLink]_vars

\* ------------------------------------------------ specification: AST setters
\* n tokens "a", no links, no AST
plainStream(n) == appendTokens(EmptyStream, [i \in 1 .. n |-> <<"a">>])

InitAst ==
    /\ Holds(plainStream(InitLen))
    /\ InitNoValues

NextAst ==
    \/ \E a \in Tok, b \in TokOrNull : AstOperand1(a, b)
    \/ \E a \in Tok, b \in TokOrNull : AstOperand2(a, b)

SpecAst == InitAst /\ [][NextAst]_vars

\* ------------------------------------ specification: AST and stream mutation
\* The stream with one expression built over it: operator p with first operand
\* a and, unless b is Null, second operand b.
InitAstMut ==
    /\ \E n \in 2 .. InitLen : \E p, a \in 1 .. n : \E b \in 0 .. n :
          /\ p # a /\ b # p /\ b # a
          /\ Holds(astOperand2(astOperand1(plainStream(n), p, a), p, b))
    /\ InitNoValues

NextAstMut ==
    \/ \E t \in Tok, c \in 1 .. MaxCount : DeleteNext(t, c)
    \/ \E t \in Tok, c \in 1 .. MaxCount : DeletePrevious(t, c)
    \/ \E t \in Tok : DeleteThis(t)
    \/ \E t \in Tok : SwapWithNext(t)
    \/ \E a, b, c \in Tok : Replace(a, b, c)
    \/ \E a \in Tok, b \in TokOrNull : EraseTokens(a, b)

SpecAstMut == InitAstMut /\ [][NextAstMut]_vars

\* -------------------------------------------------- specification: addValue
\* Values already on the list when the calls under study start.
MaxFill == 7

IntValues == {5, 6}
ValueTokens == 1 .. 3

IntArgs == { [MkValue(i) EXCEPT !.valueKind = k] : i \in IntValues, k \in ValueKinds }
TokArgs == { [MkValue(0) EXCEPT !.valueType = "TOK", !.tokvalue = t, !.valueKind = k] :
                t \in ValueTokens, k \in ValueKinds }
ContainerArgs == { [MkValue(1) EXCEPT !.valueType = "CONTAINER_SIZE", !.valueKind = "Known"] }
ArgValues == IntArgs \cup TokArgs \cup ContainerArgs

\* n Possible container sizes 1..n, as n earlier addValue calls leave them
fillerList(n) == [i \in 1 .. n |-> [MkValue(i) EXCEPT !.valueType = "CONTAINER_SIZE"]]

AddValue(v) ==
    /\ LET r == addValue(mValues, tokenVarId, mStr, v)
       IN  /\ mValues' = r.values
           /\ lastResult' = IF r.ret THEN "true" ELSE "false"
    /\ lastValue' = v
    /\ prevValues' = mValues
    /\ UNCHANGED << streamVars, tokenVarId, callVars, queryVars, settingsVars, projectVars >>

InitValues ==
    /\ Holds(appendTokens(EmptyStream, << <<"a">>, <<"a">>, <<"<">> >>))
    /\ \E n \in {0, MaxFill} :
          mValues = IF n = 0 THEN NullValues ELSE [null |-> FALSE, list |-> fillerList(n)]
    /\ tokenVarId = 7
    /\ lastValue = MkValue(0) /\ lastResult = "none" /\ prevValues = NullValues
    /\ NoCall

NextValues == \E v \in ArgValues : AddValue(v)

SpecValues == InitValues /\ [][NextValues]_vars

\* ===================================================================== claims
\* A call that crashed has no state after it; InternalError is a normal return.
Returned == fault \in {"none", "InternalError"}

\* ------------------------------------------------------------------------ C1
\* C1: after any sequence of insertToken, deleteNext, deletePrevious,
\* deleteThis, swapWithNext, move, replace and eraseTokens calls that returned,
\* every token T of the stream has T.next = null or T.next.prev = T, and
\* T.prev = null or T.prev.next = T (and neither pointer refers to a destroyed
\* token).
ListIntegrity ==
    Returned =>
      \A t \in live :
        /\ mNext[t] # Null => (mNext[t] \in live /\ mPrevious[mNext[t]] = t)
        /\ mPrevious[t] # Null => (mPrevious[t] \in live /\ mNext[mPrevious[t]] = t)

\* A stream of three or more tokens after an insertion (every object is
\* allocated), a deletion (one is gone) and a move or replace (two tokens of
\* the initial stream have changed their order).
ListIntegrityWitness ==
    /\ fault = "none"
    /\ allocated = MaxTok /\ live # 1 .. allocated
    /\ Cardinality(live) >= 3
    /\ \E t \in live : t <= InitLen /\ mNext[t] # Null /\ mNext[t] < t

\* ------------------------------------------------------------------------ C2
\* C2: after any sequence of mutations the anchor's front is a live token with
\* prev = null, its back is a live token with next = null, and following next
\* from front reaches back.
AnchorIntegrity ==
    Returned =>
      /\ front \in live /\ mPrevious[front] = Null
      /\ back \in live /\ mNext[back] = Null
      /\ back \in rangeSet(S, front, back, MaxTok)

\* ------------------------------------------------------------------------ C3
\* C3: after any sequence of createMutualLinks, deleteNext, deletePrevious,
\* deleteThis, swapWithNext, replace and eraseTokens, every token T with a link
\* has a live peer whose link is T.
LinkSymmetry ==
    Returned =>
      \A t \in live :
        mLink[t] # Null => (mLink[t] \in live /\ mLink[mLink[t]] = t)

\* ------------------------------------------------------------------------ C4
\* C4: after any sequence of astOperand1 / astOperand2 calls, following
\* ast_parent from any token ends at a token without parent.
RECURSIVE reachesRoot(_, _)
reachesRoot(t, fuel) ==
    IF mImpl[t].parent = Null THEN TRUE
    ELSE IF fuel = 0 THEN FALSE
    ELSE reachesRoot(mImpl[t].parent, fuel - 1)

AstAcyclic == Returned => \A t \in live : reachesRoot(t, MaxTok)

\* ------------------------------------------------------------------------ C5
\* C5: in a stream that deleteNext, deletePrevious, deleteThis, swapWithNext,
\* replace and eraseTokens have mutated, every operand of a remaining token T is
\* a remaining token whose ast_parent is T, and the ast_parent of T is a
\* remaining token that has T as an operand.
AstConsistent ==
    Returned =>
      \A t \in live :
        LET i == mImpl[t]
        IN  /\ i.op1 # Null => (i.op1 \in live /\ mImpl[i.op1].parent = t)
            /\ i.op2 # Null => (i.op2 \in live /\ mImpl[i.op2].parent = t)
            /\ i.parent # Null =>
                 (i.parent \in live /\ t \in {mImpl[i.parent].op1, mImpl[i.parent].op2})

\* ------------------------------------------------------------------------ C6
\* C6: the value list holds at most one Known value per value_type, and right
\* after an addValue call whose argument is Known of type t the list holds no
\* value of type t other than that argument.
knownOfType(list, vt) ==
    { i \in 1 .. Len(list) : list[i].valueType = vt /\ list[i].valueKind = "Known" }

KnownExclusive ==
    /\ \A i, j \in 1 .. Len(mValues.list) :
         (/\ mValues.list[i].valueKind = "Known" /\ mValues.list[j].valueKind = "Known"
          /\ mValues.list[i].valueType = mValues.list[j].valueType) => i = j
    /\ (lastResult # "none" /\ lastValue.valueKind = "Known") =>
         \A i \in 1 .. Len(mValues.list) :
            mValues.list[i].valueType = lastValue.valueType =>
               mValues.list[i] = [lastValue EXCEPT !.varId = tokenVarId]

\* A Known Int was added to a list that held Int values and values of other
\* types: the Int values are gone, the others are still there.
KnownExclusiveWitness ==
    /\ lastResult = "true" /\ lastValue.valueKind = "Known" /\ lastValue.valueType = "INT"
    /\ \E i \in 1 .. Len(prevValues.list) : prevValues.list[i].valueType = "INT"
    /\ \E i \in 1 .. Len(mValues.list) : mValues.list[i].valueType # "INT"
    /\ knownOfType(mValues.list, "INT") # {}

\* ------------------------------------------------------------------------ C7
\* C7: for every value v and every reachable value list, addValue(v) followed
\* at once by addValue(v) leaves the list as the first call left it.
AddValueTwice ==
    \A v \in ArgValues :
       LET once == addValue(mValues, tokenVarId, mStr, v)
           twice == addValue(once.values, tokenVarId, mStr, v)
       IN  twice.values = once.values

\* The last call repeated a Known value that was on the list among others: it
\* was purged and put back, and the list is as before.
AddValueTwiceWitness ==
    /\ lastResult = "true" /\ lastValue.valueKind = "Known"
    /\ prevValues = mValues /\ Len(mValues.list) >= 2
    /\ \E i \in 1 .. Len(mValues.list) :
          mValues.list[i] = [lastValue EXCEPT !.varId = tokenVarId]

\* ------------------------------------------------------------------------ C8
\* C8: when the call finds, on the list as the purge left it and below the
\* limit, a value with the argument's value_type and intvalue (and, for Tok and
\* Lifetime values, the same tokvalue or a tokvalue with the same lexeme), the
\* first such value is overwritten by the argument and the call returns true if
\* that value is Inconclusive and the argument is not; otherwise the list is
\* unchanged and the call returns false.  So Known Int 5, then Possible Int 5
\* leaves one value, and it is Known.
afterPurge ==
    IF lastValue.valueKind = "Known"
    THEN SelectSeq(prevValues.list, LAMBDA x : x.valueType # lastValue.valueType)
    ELSE prevValues.list

matches(x, v) ==
    /\ x.valueType = v.valueType /\ x.intvalue = v.intvalue
    /\ (v.valueType \in {"TOK", "LIFETIME"} =>
           (x.tokvalue = v.tokvalue \/ mStr[x.tokvalue] = mStr[v.tokvalue]))

DedupRule ==
    /\ (lastResult # "none" /\ ~prevValues.null /\ Len(afterPurge) < ValuesLimit) =>
         \A i \in 1 .. Len(afterPurge) :
            (/\ matches(afterPurge[i], lastValue)
             /\ \A j \in 1 .. (i - 1) : ~matches(afterPurge[j], lastValue)) =>
               IF afterPurge[i].valueKind = "Inconclusive" /\ lastValue.valueKind # "Inconclusive"
               THEN /\ lastResult = "true"
                    /\ mValues.list =
                         [afterPurge EXCEPT ![i] = [lastValue EXCEPT !.varId = tokenVarId]]
               ELSE /\ lastResult = "false"
                    /\ mValues.list = prevValues.list
    /\ LET known5 == [MkValue(5) EXCEPT !.valueKind = "Known"]
           first == addValue(NullValues, tokenVarId, mStr, known5)
           second == addValue(first.values, tokenVarId, mStr, MkValue(5))
       IN  /\ ~second.ret /\ Len(second.values.list) = 1
           /\ second.values.list[1].valueKind = "Known"

\* Known Int 5 is the only value and Possible Int 5 was just refused.
DedupRuleWitness ==
    /\ lastResult = "false" /\ lastValue = MkValue(5)
    /\ prevValues = mValues /\ Len(mValues.list) = 1
    /\ mValues.list[1].valueKind = "Known" /\ mValues.list[1].intvalue = 5

\* ------------------------------------------------------------------------ C9
\* C9: the value list never holds more than 10 values; a call that finds 10
\* values on the list as the purge left it adds nothing and returns false.
ValuesBounded ==
    /\ Len(mValues.list) <= ValuesLimit
    /\ (lastResult # "none" /\ Len(afterPurge) >= ValuesLimit) =>
          (lastResult = "false" /\ mValues.list = afterPurge)

\* A value that is not on the full list was refused.
ValuesBoundedWitness ==
    /\ Len(prevValues.list) = ValuesLimit /\ Len(mValues.list) = ValuesLimit
    /\ lastResult = "false"
    /\ \A i \in 1 .. Len(mValues.list) : ~matches(mValues.list[i], lastValue)

\* ----------------------------------------------------------------------- C10
\* C10: for every token T with a successor, swapWithNext on T twice restores
\* str, kind, flags, impl and link of every token.
SwapInvolution ==
    Returned =>
      \A t \in live :
        mNext[t] # Null =>
          LET twice == swapWithNext(swapWithNext(S, t), t)
          IN  /\ twice.str = mStr /\ twice.kind = mTokType /\ twice.flags = mFlags
              /\ twice.impl = mImpl /\ twice.link = mLink

\* ----------------------------------------------------------------------- C11
\* lexemes of the tokens from t on, following next
RECURSIVE lexemesFrom(_, _, _)
lexemesFrom(s, t, fuel) ==
    IF t = Null \/ fuel = 0 THEN <<>>
    ELSE <<s.str[t]>> \o lexemesFrom(s, s.next[t], fuel - 1)

lexemes(s) == lexemesFrom(s, s.front, MaxTok + 1)

\* next/prev are mutual and front/back designate the first and the last token
wellFormed(s) ==
    /\ s.fault = "none"
    /\ \A t \in s.live :
         /\ s.next[t] # Null => (s.next[t] \in s.live /\ s.prev[s.next[t]] = t)
         /\ s.prev[t] # Null => (s.prev[t] \in s.live /\ s.next[s.prev[t]] = t)
    /\ s.front \in s.live /\ s.prev[s.front] = Null
    /\ s.back \in s.live /\ s.next[s.back] = Null
    /\ rangeSet(s, s.front, s.back, MaxTok) = s.live

\* number of tokens from the front up to and including x
posOf(s, x) == Cardinality(rangeSet(s, s.front, x, MaxTok))

\* the i-th token counted from t (Null: there is none)
RECURSIVE nth(_, _, _)
nth(s, t, i) == IF i <= 1 \/ t = Null THEN t ELSE nth(s, s.next[t], i - 1)

\* the streams a caller gets by inserting lexeme at position i: after the
\* token at position i - 1, or before the token that is at position i now
insertionsAt(s, i, lexeme) ==
    LET before == nth(s, s.front, i - 1)
        at == nth(s, s.front, i)
    IN  (IF i > 1 /\ before # Null THEN {insertToken(s, before, lexeme, FALSE)} ELSE {})
        \cup (IF at # Null THEN {insertToken(s, at, lexeme, TRUE)} ELSE {})

\* C11: in every well-formed stream and for every token X of it, deleteThis on
\* X followed by insertToken of X's lexeme at X's former position gives a
\* well-formed stream with the lexeme sequence of the original.
DeleteInsertRestores ==
    (wellFormed(S) /\ allocated < MaxTok) =>
       \A x \in live :
          \A r \in insertionsAt(deleteThis(S, x), posOf(S, x), mStr[x]) :
             wellFormed(r) /\ lexemes(r) = lexemes(S)

\* ================================================== specification: classify
\* Lexemes handed to Token::str: literals with and without prefix (also ones
\* cut short), names, keywords, types, numbers, every operator class, brackets.
ClassLexemes ==
    { <<>>, <<"t","r","u","e">>, <<"f","a","l","s","e">>, <<"\"","x","\"">>, <<"u","8","\"","x","\"">>,
      <<"L","\"","x","\"">>, <<"u","\"">>, <<"\"">>, <<"'","c","'">>, <<"L","'","c","'">>,
      <<"u","8","'","c","'">>, <<"U","'">>, <<"'">>, <<"x">>, <<"_","x">>,
      <<"$","x">>, <<"X","1">>, <<"i","f">>, <<"i","n","t">>, <<"s","i","z","e","_","t">>,
      <<"3">>, <<"-","3">>, <<"-">>, <<"=">>, <<"+","=">>,
      <<"|","=">>, <<"<","<","=">>, <<">",">","=">>, <<",">>, <<"(">>,
      <<"]">>, <<"?">>, <<":">>, <<"<","<">>, <<">",">">>,
      <<"+">>, <<"%">>, <<"&">>, <<"|">>, <<"^">>,
      <<"~">>, <<"&","&">>, <<"|","|">>, <<"!">>, <<"=","=">>,
      <<"!","=">>, <<"<">>, <<"<","=">>, <<">">>, <<">","=">>,
      <<"+","+">>, <<"-","-">>, <<"{">>, <<"}">>, <<".">>,
      <<";">>, <<"-",">">>, <<":",":">> }

\* Kinds a token can have before it is classified again: none yet, or one the
\* symbol database has assigned.
PriorKinds == {"eNone", "eName", "eVariable", "eFunction", "eType", "eKeyword"}
VarIds == {0, 7}

\* [str, kind, flags] of token t
tokenRec(s, t) == [str |-> s.str[t], kind |-> s.kind[t], flags |-> s.flags[t]]

\* update_property_info() called on token t
classify(s, t) ==
    LET tk == update_property_info(tokenRec(s, t), s.impl[t].varId, s.link[t] # Null)
    IN  [s EXCEPT !.str[t] = tk.str, !.kind[t] = tk.kind, !.flags[t] = tk.flags]

\* Two tokens; the first has just been assigned the lexeme (mStr = s) and is
\* about to be classified, with the kind, variable id and link it had.
rawToken(lexeme, kind, varId, linked) ==
    LET s0 == appendTokens(EmptyStream, << <<"a">>, <<"a">> >>)
    IN  [s0 EXCEPT !.str[1] = lexeme, !.kind[1] = kind, !.impl[1].varId = varId,
                   !.link[1] = IF linked THEN 2 ELSE Null,
                   !.link[2] = IF linked THEN 1 ELSE Null]

UpdatePropertyInfo(t) ==
    /\ Running /\ t \in live
    /\ Install(classify(Cur, t))
    /\ UNCHANGED << valueVars, callVars, queryVars, settingsVars, projectVars >>

Str(t, lexeme) ==
    /\ Running /\ t \in live
    /\ Install(StrSet(Cur, t, lexeme))
    /\ UNCHANGED << valueVars, callVars, queryVars, settingsVars, projectVars >>

InitClassify ==
    /\ \E l \in ClassLexemes, k \in PriorKinds, v \in VarIds, linked \in BOOLEAN :
          Holds(rawToken(l, k, v, linked))
    /\ InitNoValues

NextClassify ==
    \/ \E t \in Tok : UpdatePropertyInfo(t)
    \/ \E t \in Tok, l \in Lexemes : Str(t, l)

SpecClassify == InitClassify /\ [][NextClassify]_vars

\* ----------------------------------------------------------------------- C12
\* C12: for every token, whatever its lexeme, var_id, link and prior kind, a
\* second run of update_property_info leaves str, kind and flags as the first
\* run left them.
ClassifyIdempotent ==
    \A t \in live :
       LET once == classify(S, t)
       IN  tokenRec(classify(once, t), t) = tokenRec(once, t)

\* ----------------------------------------------------------------------- C13
\* a quoted literal: an opening quote q after an optional prefix u8, u, U, L
\* and a closing q at the end (without prefix these are two characters)
quotedLiteral(s, q) ==
    /\ s # <<>> /\ s[Len(s)] = q
    /\ \/ (Len(s) >= 2 /\ s[1] = q)
       \/ \E p \in { <<"u","8">>, <<"u">>, <<"U">>, <<"L">> } :
             Len(s) > Len(p) /\ SubSeq(s, 1, Len(p) + 1) = p \o <<q>>

identifierStart(s) == s[1] \in Letters \cup {"_", "$"}

\* the ordered rule list: <<rule applies, kind it assigns>>
kindRules(s, varId, linked, prior) ==
    << << s \in { <<"t","r","u","e">>, <<"f","a","l","s","e">> }, "eBoolean" >>,
       << quotedLiteral(s, DQ), "eString" >>,
       << quotedLiteral(s, SQ), "eChar" >>,
       << identifierStart(s) /\ varId # 0, "eVariable" >>,
       << identifierStart(s),
          IF prior \in {"eVariable", "eFunction", "eType", "eKeyword"} THEN prior ELSE "eName" >>,
       << s[1] \in Digits \/ (Len(s) >= 2 /\ s[1] = "-" /\ s[2] \in Digits), "eNumber" >>,
       << s \in { <<"=">>, <<"<","<","=">>, <<">",">","=">>, <<"+","=">>, <<"-","=">>, <<"*","=">>, <<"/","=">>, <<"%","=">>, <<"&","=">>, <<"^","=">>, <<"|","=">> },
          "eAssignmentOp" >>,
       << s \in { <<",">>, <<"[">>, <<"]">>, <<"(">>, <<")">>, <<"?">>, <<":">> }, "eExtendedOp" >>,
       << s \in { <<"<","<">>, <<">",">">>, <<"+">>, <<"-">>, <<"*">>, <<"/">>, <<"%">> }, "eArithmeticalOp" >>,
       << s \in { <<"&">>, <<"|">>, <<"^">>, <<"~">> }, "eBitOp" >>,
       << s \in { <<"&","&">>, <<"|","|">>, <<"!">> }, "eLogicalOp" >>,
       << ~linked /\ s \in { <<"=","=">>, <<"!","=">>, <<"<">>, <<"<","=">>, <<">">>, <<">","=">> }, "eComparisonOp" >>,
       << s \in { <<"+","+">>, <<"-","-">> }, "eIncDecOp" >>,
       << s \in { <<"{">>, <<"}">> } \/ (linked /\ s \in { <<"<">>, <<">">> }), "eBracket" >>,
       << TRUE, "eOther" >> >>

firstApplicable(rules) ==
    rules[CHOOSE i \in 1 .. Len(rules) : rules[i][1] /\ \A j \in 1 .. (i - 1) : ~rules[j][1]][2]

standardTypeNames ==
    { <<"b","o","o","l">>, <<"_","B","o","o","l">>, <<"c","h","a","r">>, <<"d","o","u","b","l","e">>, <<"f","l","o","a","t">>, <<"i","n","t">>, <<"l","o","n","g">>, <<"s","h","o","r","t">>, <<"s","i","z","e","_","t">>, <<"v","o","i","d">>, <<"w","c","h","a","r","_","t">> }

\* C13: update_property_info gives a token the kind of the first applicable
\* rule of the ordered list (None for an empty lexeme), and afterwards a lexeme
\* of the standard-type set gets kind Type and the flag isStandardType.
ClassifyByRules ==
    \A t \in live :
       LET done == classify(S, t)
           byRule == IF mStr[t] = <<>> THEN "eNone"
                     ELSE firstApplicable(kindRules(mStr[t], mImpl[t].varId,
                                                    mLink[t] # Null, mTokType[t]))
       IN  /\ done.kind[t] = IF mStr[t] \in standardTypeNames THEN "eType" ELSE byRule
           /\ done.flags[t].isStandardType = (mStr[t] \in standardTypeNames)

\* update_property_info has made a linked "<" a bracket
ClassifyByRulesWitness ==
    /\ mStr[1] = <<"<">> /\ mLink[1] # Null /\ mTokType[1] = "eBracket"

\* ============================================================ pattern engine
\* A pattern is a sequence of characters; reading at its end gives the
\* terminating NUL.
NUL == ""
ch(p, i) == IF i >= 1 /\ i <= Len(p) THEN p[i] ELSE NUL

\* kind predicates of Token
isName(s, tok) == s.kind[tok] \in {"eName", "eType", "eVariable", "eFunction", "eKeyword"}
isKeyword(s, tok) == s.kind[tok] = "eKeyword"
isNumber(s, tok) == s.kind[tok] = "eNumber"
isBoolean(s, tok) == s.kind[tok] = "eBoolean"
isArithmeticalOp(s, tok) == s.kind[tok] = "eArithmeticalOp"
isAssignmentOp(s, tok) == s.kind[tok] = "eAssignmentOp"
isComparisonOp(s, tok) == s.kind[tok] = "eComparisonOp"
isConstOp(s, tok) ==
    s.kind[tok] \in {"eArithmeticalOp", "eLogicalOp", "eComparisonOp", "eBitOp"}
isOp(s, tok) == isConstOp(s, tok) \/ s.kind[tok] \in {"eAssignmentOp", "eIncDecOp"}

\* The switch of multiComparePercent; h is the position after "++haystack".
\* [hit, h, err]: the token matches, the position behind the command, or the
\* function throws.
percentCommand(s, tok, p, h, varid) ==
    LET c == ch(p, h)
        no(hit, k) == [hit |-> hit, h |-> h + k, err |-> FALSE]
        throw == [hit |-> FALSE, h |-> h, err |-> TRUE]
    IN  CASE c \in {NUL, " ", "|"} ->
               no(isArithmeticalOp(s, tok) /\ s.str[tok] = <<"%">>, 1)
          [] c = "v" ->
               IF ch(p, h + 3) = "%" THEN no(s.impl[tok].varId # 0, 4)
               ELSE IF varid = 0 THEN throw
               ELSE no(s.impl[tok].varId = varid, 6)
          [] c = "t" ->
               no(isName(s, tok) /\ s.impl[tok].varId = 0 /\ ~isKeyword(s, tok), 5)
          [] c = "a" ->
               IF ch(p, h + 3) = "%" THEN no(TRUE, 4) ELSE no(isAssignmentOp(s, tok), 7)
          [] c = "n" ->
               IF ch(p, h + 4) = "%" THEN no(isName(s, tok), 5) ELSE no(isNumber(s, tok), 4)
          [] c = "c" ->
               IF ch(p, h + 1) = "h" THEN no(s.kind[tok] = "eChar", 5)
               ELSE IF ch(p, h + 2) = "p" THEN no(isConstOp(s, tok), 4)
               ELSE no(isComparisonOp(s, tok), 5)
          [] c = "s" -> no(s.kind[tok] = "eString", 4)
          [] c = "b" -> no(isBoolean(s, tok), 5)
          [] c = "o" ->
               IF ch(p, h + 2) = "%"
               THEN IF ch(p, h + 1) = "p" THEN no(isOp(s, tok), 3)
                    ELSE no(s.kind[tok] = "eBitOp" /\ s.str[tok] = <<"|">>, 3)
               ELSE no(s.kind[tok] = "eLogicalOp" /\ s.str[tok] = <<"|","|">>, 5)
          [] OTHER -> throw

\* every command matches every token
multiComparePercent_alwaysHit(s, tok, p, haystack, varid) ==
    [ret |-> 1, h |-> haystack, err |-> FALSE]

\* [ret, h, err]: ret is 1 (match), -1 (no match, no further alternative) or
\* 65535 (no match, h is at the next alternative)
multiComparePercent(s, tok, p, haystack, varid) ==
    LET r == percentCommand(s, tok, p, haystack + 1, varid)
    IN  IF r.err THEN [ret |-> -1, h |-> r.h, err |-> TRUE]
        ELSE IF r.hit THEN [ret |-> 1, h |-> r.h, err |-> FALSE]
        ELSE IF ch(p, r.h) = "|" THEN [ret |-> 65535, h |-> r.h + 1, err |-> FALSE]
        ELSE [ret |-> -1, h |-> r.h, err |-> FALSE]

\* do ++haystack while (*haystack != ' ' && *haystack != '|' && *haystack)
RECURSIVE nextBar(_, _)
nextBar(p, h) ==
    IF ch(p, h + 1) \in {" ", "|", NUL} THEN h + 1 ELSE nextBar(p, h + 1)

\* The loop of Token::multiCompare: haystack is the position in the pattern,
\* needlePointer the position in the token's lexeme (1: at its start).
RECURSIVE multiCompareLoop(_, _, _, _, _, _)
multiCompareLoop(s, tok, p, haystack, needlePointer, varid) ==
    LET needle == s.str[tok]
        nc == ch(needle, needlePointer)
        hc == ch(p, haystack)
    IN  IF needlePointer = 1 /\ hc = "%" /\ ch(p, haystack + 1) \notin {"|", NUL, " "}
        THEN LET r == multiComparePercent(s, tok, p, haystack, varid)
             IN  IF r.err THEN [ret |-> -1, err |-> TRUE]
                 ELSE IF r.ret < 2 THEN [ret |-> r.ret, err |-> FALSE]
                 ELSE multiCompareLoop(s, tok, p, r.h, needlePointer, varid)
        ELSE IF hc = "|"
        THEN IF nc = NUL THEN [ret |-> 1, err |-> FALSE]
             ELSE multiCompareLoop(s, tok, p, haystack + 1, 1, varid)
        ELSE IF nc = hc
        THEN IF nc = NUL THEN [ret |-> 1, err |-> FALSE]
             ELSE multiCompareLoop(s, tok, p, haystack + 1, needlePointer + 1, varid)
        ELSE IF hc = " " \/ hc = NUL
        THEN IF needlePointer = 1 THEN [ret |-> 0, err |-> FALSE]
             ELSE [ret |-> IF nc = NUL THEN 1 ELSE -1, err |-> FALSE]
        ELSE LET h == nextBar(p, haystack)
             IN  IF ch(p, h) = " " \/ ch(p, h) = NUL THEN [ret |-> -1, err |-> FALSE]
                 ELSE multiCompareLoop(s, tok, p, h + 1, 1, varid)

\* an alternative matches as soon as it starts like the lexeme
multiCompare_firstChar(s, tok, p, haystack, varid) ==
    [ret |-> IF ch(p, haystack) = ch(s.str[tok], 1) THEN 1 ELSE -1, err |-> FALSE]

multiCompare(s, tok, p, haystack, varid) == multiCompareLoop(s, tok, p, haystack, 1, varid)

\* the words are equal when they start with the same character
firstWordEquals_firstChar(p, i, word, k) == ch(p, i) = ch(word, k)

\* Token::firstWordEquals(str, word): str is the pattern from position i
RECURSIVE firstWordEquals(_, _, _, _)
firstWordEquals(p, i, word, k) ==
    IF ch(p, i) # ch(word, k) THEN ch(p, i) = " " /\ ch(word, k) = NUL
    ELSE IF ch(p, i) = NUL THEN TRUE
    ELSE firstWordEquals(p, i + 1, word, k + 1)

\* Token::chrInFirstWord(str, c) != nullptr
RECURSIVE chrInFirstWord(_, _, _)
chrInFirstWord(p, i, c) ==
    IF ch(p, i) = " " \/ ch(p, i) = NUL THEN FALSE
    ELSE IF ch(p, i) = c THEN TRUE
    ELSE chrInFirstWord(p, i + 1, c)

\* while (*p && *p != ' ') ++p
RECURSIVE wordEnd(_, _)
wordEnd(p, i) == IF ch(p, i) = NUL \/ ch(p, i) = " " THEN i ELSE wordEnd(p, i + 1)

\* while (*p == ' ') ++p
RECURSIVE skipSpaces(_, _)
skipSpaces(p, i) == IF ch(p, i) = " " THEN skipSpaces(p, i + 1) ELSE i

\* a scan that stops at the first "]" or listed character it meets
bracketScan_firstOnly(p, temp, c, count) ==
    [chrFound |-> ch(p, temp) = c, count |-> count, temp |-> temp]

\* the scan of a "[...]" word for the token's character c, from position temp:
\* [chrFound, count, temp]
RECURSIVE bracketScan(_, _, _, _)
bracketScan(p, temp, c, count) ==
    IF ch(p, temp) = NUL \/ ch(p, temp) = " "
    THEN [chrFound |-> FALSE, count |-> count, temp |-> temp]
    ELSE IF ch(p, temp) = "]" THEN bracketScan(p, temp + 1, c, count + 1)
    ELSE IF ch(p, temp) = c THEN [chrFound |-> TRUE, count |-> count, temp |-> temp]
    ELSE bracketScan(p, temp + 1, c, count)

\* The loop of Token::Match from position i of the pattern with the cursor at
\* tok: [res, tok], the result ("true", "false", "InternalError") and the
\* cursor when the loop was left.
RECURSIVE MatchLoop(_, _, _, _, _)
MatchLoop(s, tok, p, i, varid) ==
    LET j == skipSpaces(p, i)
        done(res) == [res |-> res, tok |-> tok]
        isNot == ch(p, j) = "!" /\ ch(p, j + 1) = "!" /\ ch(p, j + 2) # NUL
    IN  IF ch(p, i) = NUL \/ ch(p, j) = NUL THEN done("true")
        ELSE IF tok = Null
        THEN IF isNot THEN MatchLoop(s, tok, p, wordEnd(p, j), varid) ELSE done("false")
        ELSE IF ch(p, j) = "[" /\ chrInFirstWord(p, j, "]")
        THEN IF Len(s.str[tok]) # 1 THEN done("false")
             ELSE LET r == bracketScan(p, j + 1, s.str[tok][1], 0)
                      chrFound == r.chrFound \/ (r.count > 1 /\ s.str[tok][1] = "]")
                  IN  IF ~chrFound THEN done("false")
                      ELSE MatchLoop(s, s.next[tok], p, wordEnd(p, r.temp), varid)
        ELSE IF isNot
        THEN IF firstWordEquals(p, j + 2, s.str[tok], 1) THEN done("false")
             ELSE MatchLoop(s, s.next[tok], p, wordEnd(p, j + 2), varid)
        ELSE LET res == multiCompare(s, tok, p, j, varid)
             IN  IF res.err THEN done("InternalError")
                 ELSE IF res.ret = 0 THEN MatchLoop(s, tok, p, wordEnd(p, j), varid)
                 ELSE IF res.ret = -1 THEN done("false")
                 ELSE MatchLoop(s, s.next[tok], p, wordEnd(p, j), varid)

Match(s, tok, p, varid) == MatchLoop(s, tok, p, 1, varid).res

\* The loop of Token::simpleMatch: current is the start of the word, the word
\* ends before the next space or at the end of the pattern.
RECURSIVE simpleMatchLoop(_, _, _, _)
simpleMatchLoop(s, tok, p, current) ==
    IF ch(p, current) = NUL THEN TRUE
    ELSE LET next == wordEnd(p, current)
             length == next - current
         IN  IF tok = Null \/ length # Len(s.str[tok])
                \/ SubSeq(p, current, next - 1) # s.str[tok]
             THEN FALSE
             ELSE simpleMatchLoop(s, s.next[tok], p,
                                  IF ch(p, next) # NUL THEN next + 1 ELSE next)

\* only the first word is compared
simpleMatch_firstWord(s, tok, p) ==
    tok # Null /\ SubSeq(p, 1, wordEnd(p, 1) - 1) = s.str[tok]

simpleMatch(s, tok, p) == IF tok = Null THEN FALSE ELSE simpleMatchLoop(s, tok, p, 1)

\* ================================================ specification: pattern calls
\* Token objects of the streams the pattern functions are called on.
MaxMatchTok == 6
MatchTok == 1 .. MaxMatchTok

EmptyMatchStream ==
    [EmptyStream EXCEPT
       !.next = [t \in MatchTok |-> Null], !.prev = [t \in MatchTok |-> Null],
       !.link = [t \in MatchTok |-> Null], !.str = [t \in MatchTok |-> <<>>],
       !.kind = [t \in MatchTok |-> "eNone"], !.flags = [t \in MatchTok |-> NoFlags],
       !.impl = [t \in MatchTok |-> NoImpl]]

\* Token::varId(id): the variable id is stored; a non-zero id makes the token
\* a Variable, id 0 classifies it again.
setVarId(s, t, id) ==
    IF id # 0
    THEN [s EXCEPT !.impl[t].varId = id, !.kind[t] = "eVariable",
                   !.flags[t].isStandardType = FALSE]
    ELSE classify([s EXCEPT !.impl[t].varId = 0], t)

\* the stream of the lexemes strs in which every token "x" is variable 7, every
\* "y" variable 8 and every "return" a keyword
RECURSIVE symbols(_, _)
symbols(s, t) ==
    IF t = Null THEN s
    ELSE LET s1 == IF s.str[t] = <<"x">> THEN setVarId(s, t, 7)
                   ELSE IF s.str[t] = <<"y">> THEN setVarId(s, t, 8)
                   ELSE IF s.str[t] = <<"r","e","t","u","r","n">>
                        THEN [s EXCEPT !.kind[t] = "eKeyword"]
                   ELSE s
         IN  symbols(s1, s.next[t])

matchStream(strs) ==
    LET s == appendTokens(EmptyMatchStream, strs) IN symbols(s, s.front)

MatchStreams ==
    { << <<"i","f">>, <<"(">>, <<"x">>, <<"=","=">>, <<"3">>, <<")">> >>,
      << <<"i","f">>, <<"(">>, <<"x">>, <<"=","=">>, <<"y">>, <<")">> >>,
      << <<"t","h","e","n">>, <<"e","l","s","e">>, <<"x">> >>,
      << <<",">>, <<";">>, <<".">>, <<"a","b">>, <<"]">>, <<"a">> >>,
      << <<"f","o","o">>, <<"f","o">>, <<"f","o","o","o">>, <<"x">>, <<"|">>, <<"|","|">> >>,
      << <<"'","c","'">>, <<"\"","s","\"">>, <<"t","r","u","e">>, <<"i","n","t">>, <<"3">>, <<"r","e","t","u","r","n">> >>,
      << <<"a">>, <<"a","b">>, <<"a","b","c">>, <<"b">>, <<"y">> >> }

MatchPatterns ==
    { <<"i","f"," ","("," ","%","v","a","r","%"," ","=","="," ","%","n","u","m","%"," ",")">>, <<"i","f"," ","("," ","%","v","a","r","i","d","%"," ","=","="," ","%","a","n","y","%">>, <<"%","v","a","r","%">>,
      <<"%","v","a","r","i","d","%">>, <<"%","t","y","p","e","%">>, <<"%","a","n","y","%">>,
      <<"%","n","a","m","e","%">>, <<"%","n","u","m","%">>, <<"%","c","h","a","r","%">>,
      <<"%","s","t","r","%">>, <<"%","b","o","o","l","%">>, <<"%","o","r","%">>,
      <<"%","o","r","o","r","%">>, <<"%","o","p","%">>, <<"%","c","o","p","%">>,
      <<"%","c","o","m","p","%">>, <<"%","a","s","s","i","g","n","%">>, <<"!","!","e","l","s","e">>,
      <<"!","!","x">>, <<"x"," ","!","!","e","l","s","e">>, <<"x"," ","%","a","n","y","%">>,
      <<"t","h","e","n"," ","!","!","e","l","s","e">>, <<"e","l","s","e"," ","!","!","e","l","s","e"," ","x">>, <<"[",",",";","]">>,
      <<"[","a","b","]">>, <<"[","]","a","]">>, <<"[",",",";","]"," ","[",",",";","]">>,
      <<"a","|","b">>, <<"a","b","|","b">>, <<"a","|","a","b","c">>,
      <<"a","b","c","|","a","b">>, <<"f","o","o","|","f","o">>, <<"f","o","|","f","o","o","o">>,
      <<"%","n","u","m","%","|","x">>, <<"x","|","%","n","u","m","%">>, <<"%","v","a","r","%","|","f","o","o">>,
      <<"f","o","o","|","%","v","a","r","%">>, <<"a","|","a","b"," ","a","|","a","b","|","a","b","c">>, <<"a","|">>,
      <<"|","a">>, <<"f","o","o","|"," ","f","o">>, <<"|","f","o","o"," ","f","o">>,
      <<"a","|"," ","a">>, <<"%","v","a","r","i","d","%","|","f","o","o">>, <<"f","o","o","|","%","v","a","r","i","d","%">>,
      <<"%","v","a","r","%","|","%","v","a","r","i","d","%">>, <<>> }

SimplePatterns ==
    { <<"i","f"," ","(">>, <<"i","f"," ","("," ","x"," ","=","="," ","3"," ",")">>, <<"i","f"," ","("," ","x"," ","=","="," ","y"," ",")">>,
      <<"t","h","e","n"," ","e","l","s","e">>, <<"t","h","e","n"," ","e","l","s","e"," ","x"," ","y">>, <<"a"," ","a","b"," ","a","b","c">>,
      <<"x">>, <<"f","o">>, <<"%","v","a","r","%">>,
      <<"a","|","b">>, <<"[","a","b","]">>, <<"!","!","e","l","s","e">>,
      <<>> }

MatchVarids == {0, 7, 8}

\* One call at a time: the caller takes the result before the next call.
MatchCall(tok, p, varid) ==
    /\ callName = "none" /\ tok \in live \cup {Null}
    /\ callName' = "Match" /\ callTok' = tok /\ callPattern' = p /\ callVarid' = varid
    /\ callResult' = Match(S, tok, p, varid)
    /\ UNCHANGED << streamVars, valueVars, queryVars, settingsVars, projectVars >>

SimpleMatchCall(tok, p) ==
    /\ callName = "none" /\ tok \in live \cup {Null}
    /\ callName' = "simpleMatch" /\ callTok' = tok /\ callPattern' = p /\ callVarid' = 0
    /\ callResult' = IF simpleMatch(S, tok, p) THEN "true" ELSE "false"
    /\ UNCHANGED << streamVars, valueVars, queryVars, settingsVars, projectVars >>

\* the caller has taken the result
Return ==
    /\ callName # "none"
    /\ callName' = "none" /\ callTok' = Null /\ callPattern' = <<>>
    /\ callVarid' = 0 /\ callResult' = "none"
    /\ UNCHANGED << streamVars, valueVars, queryVars, settingsVars, projectVars >>

InitMatch ==
    /\ \E strs \in MatchStreams : Holds(matchStream(strs))
    /\ InitNoValues

NextMatch ==
    \/ \E tok \in 0 .. MaxMatchTok, p \in MatchPatterns, v \in MatchVarids : MatchCall(tok, p, v)
    \/ \E tok \in 0 .. MaxMatchTok, p \in SimplePatterns : SimpleMatchCall(tok, p)
    \/ Return

SpecMatch == InitMatch /\ [][NextMatch]_vars

\* ===================================================== claims on the patterns
\* the words ws joined by the separator character c
RECURSIVE join(_, _)
join(ws, c) ==
    IF ws = <<>> THEN <<>>
    ELSE IF Len(ws) = 1 THEN ws[1]
    ELSE ws[1] \o <<c>> \o join(Tail(ws), c)

\* the meta-token %name%
meta(name) == <<"%">> \o name \o <<"%">>

PatIfVarNum == <<"i","f"," ","("," ","%","v","a","r","%"," ","=","="," ","%","n","u","m","%"," ",")">>

\* ----------------------------------------------------------------------- C14
nameClass == {"eName", "eType", "eVariable", "eFunction", "eKeyword"}

\* what each meta-token is defined to match
metaHolds(m, tok, varid) ==
    CASE m = <<"v","a","r">> -> mImpl[tok].varId # 0
      [] m = <<"v","a","r","i","d">> -> mImpl[tok].varId = varid
      [] m = <<"t","y","p","e">> ->
           mTokType[tok] \in nameClass /\ mImpl[tok].varId = 0 /\ mTokType[tok] # "eKeyword"
      [] m = <<"a","n","y">> -> TRUE
      [] m = <<"n","a","m","e">> -> mTokType[tok] \in nameClass
      [] m = <<"n","u","m">> -> mTokType[tok] = "eNumber"
      [] m = <<"c","h","a","r">> -> mTokType[tok] = "eChar"
      [] m = <<"s","t","r">> -> mTokType[tok] = "eString"
      [] m = <<"b","o","o","l">> -> mTokType[tok] = "eBoolean"
      [] m = <<"o","r">> -> mStr[tok] = <<"|">> /\ mTokType[tok] = "eBitOp"
      [] m = <<"o","r","o","r">> -> mStr[tok] = <<"|","|">> /\ mTokType[tok] = "eLogicalOp"

MetaNames ==
    { <<"v","a","r">>, <<"v","a","r","i","d">>, <<"t","y","p","e">>, <<"a","n","y">>,
      <<"n","a","m","e">>, <<"n","u","m">>, <<"c","h","a","r">>, <<"s","t","r">>,
      <<"b","o","o","l">>, <<"o","r">>, <<"o","r","o","r">> }

\* C14: for every token and every meta-token, Match with the meta-token as
\* pattern returns true iff the token is one the meta-token is defined to
\* match (%varid% with a non-zero varid argument); "if ( %var% == %num% )"
\* matches if ( x == 3 ) with x variable 7 and does not match if ( x == y ).
MetaTokens ==
    callName = "none" =>
      /\ \A m \in MetaNames, tok \in live, v \in MatchVarids :
           (m = <<"v","a","r","i","d">> => v # 0) =>
              ((Match(S, tok, meta(m), v) = "true") <=> metaHolds(m, tok, v))
      /\ LET s1 == matchStream(<< <<"i","f">>, <<"(">>, <<"x">>, <<"=","=">>, <<"3">>, <<")">> >>)
             s2 == matchStream(<< <<"i","f">>, <<"(">>, <<"x">>, <<"=","=">>, <<"y">>, <<")">> >>)
         IN  /\ s1.impl[3].varId = 7
             /\ Match(s1, s1.front, PatIfVarNum, 0) = "true"
             /\ Match(s2, s2.front, PatIfVarNum, 0) = "false"

\* Match was called with "if ( %var% == %num% )" on if ( x == 3 ) and
\* returned true
MetaTokensWitness ==
    /\ callName = "Match" /\ callPattern = PatIfVarNum /\ callTok = front
    /\ mStr[5] = <<"3">> /\ mImpl[3].varId = 7 /\ callResult = "true"

\* ----------------------------------------------------------------------- C15
NotWords == { <<"e","l","s","e">>, <<"x">>, <<"t","h","e","n">>, <<"f","o">>, <<"f","o","o">>, <<"f","o","o","o">> }
OtherWords == { <<"e","l","s","e">>, <<"%","a","n","y","%">>, <<"[","a","b","]">>, <<"a","|">>, <<"a","|","b">>, <<"!","!">> }

\* C15: the word !!x fails on a token with lexeme x, succeeds on every other
\* token and moves the cursor to the next one, and succeeds with the cursor
\* unmoved when the cursor is past the end; every other word fails there.  The
\* cursor is put past the end by a first word %any% on the last token.
NotOption ==
    callName = "none" =>
      /\ \A x \in NotWords :
           LET w == <<"!","!">> \o x
               past == MatchLoop(S, Null, w, 1, 0)
           IN  /\ \A tok \in live :
                    LET r == MatchLoop(S, tok, w, 1, 0)
                    IN  IF mStr[tok] = x THEN r.res = "false"
                        ELSE r.res = "true" /\ r.tok = mNext[tok]
               /\ past.res = "true" /\ past.tok = Null
               /\ Match(S, back, join(<<meta(<<"a","n","y">>), w>>, " "), 0) = "true"
      /\ \A w \in OtherWords :
           /\ Match(S, Null, w, 0) = "false"
           /\ Match(S, back, join(<<meta(<<"a","n","y">>), w>>, " "), 0) = "false"

\* "x !!else" was matched on the last token x of then else x
NotOptionWitness ==
    /\ callName = "Match" /\ callPattern = <<"x"," ","!","!","e","l","s","e">>
    /\ callTok = back /\ mStr[back] = <<"x">> /\ callResult = "true"

\* ----------------------------------------------------------------------- C16
CharClasses == { <<",",";">>, <<"a","b">>, <<".">>, <<"]","a">>, <<";",".","]">> }

\* C16: the word [c1..cn] succeeds on a token, moving the cursor to the next
\* one, iff the lexeme is one character and that character is one of c1..cn;
\* "[,;]" matches , and ; and not . or ab.
BracketWord ==
    callName = "none" =>
      \A cls \in CharClasses, tok \in live :
         LET r == MatchLoop(S, tok, <<"[">> \o cls \o <<"]">>, 1, 0)
         IN  IF Len(mStr[tok]) = 1 /\ \E i \in 1 .. Len(cls) : cls[i] = mStr[tok][1]
             THEN r.res = "true" /\ r.tok = mNext[tok]
             ELSE r.res = "false"

\* "[,;] [,;]" was matched on , ; and "[,;]" was refused on .
BracketWordWitness ==
    /\ callName = "Match" /\ callPattern = <<"[",",",";","]"," ","[",",",";","]">>
    /\ callTok = front /\ mStr[front] = <<",">> /\ callResult = "true"
    /\ Match(S, 3, <<"[",",",";","]">>, 0) = "false" /\ mStr[3] = <<".">>

\* ----------------------------------------------------------------------- C17
Alternatives ==
    { <<"a">>, <<"a","b">>, <<"a","b","c">>, <<"b">>, <<"f","o","o">>, <<"f","o">>, <<"f","o","o","o">>, <<"x">> }
       \cup { meta(<<"v","a","r">>), meta(<<"n","u","m">>) }

AlternativeLists ==
    { <<a>> : a \in Alternatives } \cup { <<a, b>> : a, b \in Alternatives }
       \cup { <<a, <<"a","b">>, c>> : a, c \in Alternatives }

alternativeMatches(alt, tok) ==
    IF alt[1] = "%" THEN metaHolds(SubSeq(alt, 2, Len(alt) - 1), tok, 0)
    ELSE mStr[tok] = alt

\* C17: the word a1|...|an succeeds on a token, moving the cursor to the next
\* one, iff the whole lexeme equals a literal alternative or a meta-token
\* alternative matches the token; otherwise it fails.
Alternation ==
    callName = "none" =>
      \A alts \in AlternativeLists, tok \in live :
         LET r == MatchLoop(S, tok, join(alts, "|"), 1, 0)
         IN  IF \E i \in 1 .. Len(alts) : alternativeMatches(alts[i], tok)
             THEN r.res = "true" /\ r.tok = mNext[tok]
             ELSE r.res = "false"

\* "a|ab a|ab|abc" was matched on a ab, and "a|abc" was refused on ab
AlternationWitness ==
    /\ callName = "Match" /\ callPattern = <<"a","|","a","b"," ","a","|","a","b","|","a","b","c">>
    /\ callTok = front /\ mStr[front] = <<"a">> /\ callResult = "true"
    /\ mStr[2] = <<"a","b">> /\ Match(S, 2, <<"a","|","a","b","c">>, 0) = "false"

\* ----------------------------------------------------------------------- C18
\* C18: a word with an empty alternative after or before the '|' never fails:
\* Match returns true, and when the literal alternative is not the token's
\* lexeme the cursor stays on the token.
EmptyAlternativePasses ==
    callName = "none" =>
      \A lit \in { <<"a">>, <<"f","o","o">> }, tok \in live :
         \A w \in { lit \o <<"|">>, <<"|">> \o lit } :
            LET r == MatchLoop(S, tok, w, 1, 0)
            IN  r.res = "true" /\ (mStr[tok] # lit => r.tok = tok)

\* ----------------------------------------------------------------------- C19
\* C19: with varid 0, Match on a token with a word that has the alternative
\* %varid% raises InternalError, also when another alternative matches.
VaridZeroThrows ==
    callName = "none" =>
      \A tok \in live :
         \A w \in { <<"%","v","a","r","i","d","%">>, <<"%","v","a","r","i","d","%","|","f","o","o">>, <<"f","o","o","|","%","v","a","r","i","d","%">>, <<"%","v","a","r","%","|","%","v","a","r","i","d","%">> } :
            Match(S, tok, w, 0) = "InternalError"

\* ----------------------------------------------------------------------- C20
SimpleWords ==
    { <<"i","f">>, <<"(">>, <<"x">>, <<"=","=">>, <<"3">>, <<")">>,
      <<"y">>, <<"t","h","e","n">>, <<"e","l","s","e">>, <<"a">>, <<"a","b">>, <<"a","b","c">>,
      <<"f","o">>, <<"%","v","a","r","%">>, <<"a","|","b">>, <<"[","a","b","]">>, <<"!","!","e","l","s","e">> }

SimpleWordLists ==
    { <<>> } \cup { <<a>> : a \in SimpleWords } \cup { <<a, b>> : a, b \in SimpleWords }
       \cup { << <<"i","f">>, <<"(">>, <<"x">>, <<"=","=">>, <<"3">>, <<")">> >>,
              << <<"i","f">>, <<"(">>, <<"x">>, <<"=","=">>, <<"y">>, <<")">> >>,
              << <<"t","h","e","n">>, <<"e","l","s","e">>, <<"x">>, <<"y">> >> }

\* the tokens from tok on exist and have the lexemes ws, one by one
RECURSIVE lexemesAre(_, _)
lexemesAre(tok, ws) ==
    IF ws = <<>> THEN TRUE
    ELSE tok # Null /\ mStr[tok] = Head(ws) /\ lexemesAre(mNext[tok], Tail(ws))

\* C20: simpleMatch(tok, "w1 .. wn") is true iff tok is not null and the i-th
\* token from tok exists and has lexeme wi for every i; %var%, a|b, [ab] and
\* !!else are compared as plain words.
SimpleMatchLiteral ==
    callName = "none" =>
      \A ws \in SimpleWordLists, tok \in live \cup {Null} :
         simpleMatch(S, tok, join(ws, " ")) <=> (tok # Null /\ lexemesAre(tok, ws))

\* simpleMatch accepted "if ( x == 3 )" on that stream and refuses "%var%" on x
SimpleMatchLiteralWitness ==
    /\ callName = "simpleMatch" /\ callPattern = <<"i","f"," ","("," ","x"," ","=","="," ","3"," ",")">>
    /\ callTok = front /\ callResult = "true"
    /\ mImpl[3].varId = 7 /\ ~simpleMatch(S, 3, <<"%","v","a","r","%">>)

\* ============================================================ value queries
isIntValue(v) == v.valueType = "INT"
isFloatValue(v) == v.valueType = "FLOAT"
isInconclusive(v) == v.valueKind = "Inconclusive"

\* Settings as the queries read it; null: the caller passed no settings
EnabledGroups == {"WARNING", "STYLE"}
NullSettings == [null |-> TRUE, inconclusive |-> FALSE, mEnabled |-> {}]

\* (mEnabled & group) == group
isEnabled(settings, group) == (settings.mEnabled \cap {group}) = {group}

\* The selection loop shared by getValueLE, getValueGE and getInvalidValue:
\* ret (a position in the list, 0 for nullptr) after the values from position
\* i on; cand holds the positions that pass the function's own test.
RECURSIVE selectLoop(_, _, _, _)
selectLoop(list, cand, i, ret) ==
    IF i > Len(list) THEN ret
    ELSE IF i \notin cand THEN selectLoop(list, cand, i + 1, ret)
    ELSE LET r == IF \/ ret = 0
                     \/ isInconclusive(list[ret])
                     \/ (list[ret].condition # Null /\ ~isInconclusive(list[i]))
                  THEN i ELSE ret
         IN  IF ~isInconclusive(list[r]) /\ list[r].condition = Null
             THEN r
             ELSE selectLoop(list, cand, i + 1, r)

\* a gate that lets conditional values through whatever is enabled
settingsGate_inconclusiveOnly(list, ret, settings) ==
    IF isInconclusive(list[ret]) /\ ~settings.inconclusive THEN 0 ELSE ret

\* the two returns of nullptr that follow the loop
settingsGate(list, ret, settings) ==
    IF isInconclusive(list[ret]) /\ ~settings.inconclusive THEN 0
    ELSE IF list[ret].condition # Null /\ ~isEnabled(settings, "WARNING") THEN 0
    ELSE ret

positions(list, test(_)) == { i \in 1 .. Len(list) : test(list[i]) }

getValueLE(mv, val, settings) ==
    IF mv.null THEN 0
    ELSE LET ret == selectLoop(mv.list,
                               positions(mv.list, LAMBDA v : isIntValue(v) /\ v.intvalue <= val),
                               1, 0)
         IN  IF ~settings.null /\ ret # 0 THEN settingsGate(mv.list, ret, settings) ELSE ret

getValueGE(mv, val, settings) ==
    IF mv.null THEN 0
    ELSE LET ret == selectLoop(mv.list,
                               positions(mv.list, LAMBDA v : isIntValue(v) /\ v.intvalue >= val),
                               1, 0)
         IN  IF ~settings.null /\ ret # 0 THEN settingsGate(mv.list, ret, settings) ELSE ret

\* The library's verdict on an argument: the numbers it accepts for the
\* argument asked about.
isIntArgValid(library, x) == x \in library.validInts
isFloatArgValid(library, x) == x \in library.validFloats

getInvalidValue(mv, library, settings) ==
    IF mv.null \/ settings.null THEN 0
    ELSE LET ret == selectLoop(mv.list,
                               positions(mv.list,
                                  LAMBDA v : \/ isIntValue(v) /\ ~isIntArgValid(library, v.intvalue)
                                             \/ isFloatValue(v) /\ ~isFloatArgValid(library, v.floatValue)),
                               1, 0)
         IN  IF ret # 0 THEN settingsGate(mv.list, ret, settings) ELSE ret

\* ---------------------------------------------------------------- SpecQuery
\* A value list that addValue calls have built, then one query at a time.
QueryLen == 3

QueryInts == {1, 2, 3}
QueryKinds == {"Possible", "Inconclusive"}
QueryConditions == {Null, 1}

QueryValues ==
    { [MkValue(i) EXCEPT !.valueKind = k, !.condition = c] :
         i \in QueryInts, k \in QueryKinds, c \in QueryConditions }
    \cup { [MkValue(0) EXCEPT !.valueType = "FLOAT", !.floatValue = 1,
                              !.valueKind = k, !.condition = c] :
              k \in QueryKinds, c \in QueryConditions }

QuerySettings ==
    {NullSettings} \cup { [null |-> FALSE, inconclusive |-> b, mEnabled |-> e] :
                             b \in BOOLEAN, e \in {{}, {"WARNING"}, {"STYLE"}} }

QueryBounds == {0, 2, 4}
QueryLibraries ==
    { [validInts |-> a, validFloats |-> f] : a \in {{}, {1}, QueryInts}, f \in {{}, {1}} }

\* the list after addValue has been called with args[1], args[2], ... in turn
RECURSIVE addAll(_, _, _, _)
addAll(mv, varId, str, args) ==
    IF args = <<>> THEN mv
    ELSE addAll(addValue(mv, varId, str, Head(args)).values, varId, str, Tail(args))

GetValueLE(val, settings) ==
    /\ queryName = "none"
    /\ queryName' = "getValueLE" /\ queryArgs' = [val |-> val, settings |-> settings]
    /\ queryResult' = getValueLE(mValues, val, settings)
    /\ UNCHANGED << streamVars, valueVars, callVars, settingsVars, projectVars >>

GetValueGE(val, settings) ==
    /\ queryName = "none"
    /\ queryName' = "getValueGE" /\ queryArgs' = [val |-> val, settings |-> settings]
    /\ queryResult' = getValueGE(mValues, val, settings)
    /\ UNCHANGED << streamVars, valueVars, callVars, settingsVars, projectVars >>

GetInvalidValue(library, settings) ==
    /\ queryName = "none"
    /\ queryName' = "getInvalidValue"
    /\ queryArgs' = [library |-> library, settings |-> settings]
    /\ queryResult' = getInvalidValue(mValues, library, settings)
    /\ UNCHANGED << streamVars, valueVars, callVars, settingsVars, projectVars >>

\* the caller has taken the result
QueryReturn ==
    /\ queryName # "none"
    /\ queryName' = "none" /\ queryArgs' = <<>> /\ queryResult' = Null
    /\ UNCHANGED << streamVars, valueVars, callVars, settingsVars, projectVars >>

InitQuery ==
    /\ Holds(appendTokens(EmptyStream, << <<"a">>, <<"a">>, <<"<">> >>))
    /\ tokenVarId = 7
    /\ \E n \in 0 .. QueryLen : \E args \in [1 .. n -> QueryValues] :
          mValues = addAll(NullValues, 7, mStr, args)
    /\ lastValue = MkValue(0) /\ lastResult = "none" /\ prevValues = NullValues
    /\ NoCall

NextQuery ==
    \/ \E val \in QueryBounds, settings \in QuerySettings : GetValueLE(val, settings)
    \/ \E val \in QueryBounds, settings \in QuerySettings : GetValueGE(val, settings)
    \/ \E library \in QueryLibraries, settings \in QuerySettings :
          GetInvalidValue(library, settings)
    \/ QueryReturn

SpecQuery == InitQuery /\ [][NextQuery]_vars

\* ----------------------------------------------------------------------- C21
neitherInconclusiveNorConditional(v) == ~isInconclusive(v) /\ v.condition = Null

\* the candidates of the pending getValueLE / getValueGE call
candidates ==
    { i \in 1 .. Len(mValues.list) :
         /\ mValues.list[i].valueType = "INT"
         /\ IF queryName = "getValueLE" THEN mValues.list[i].intvalue <= queryArgs.val
                                        ELSE mValues.list[i].intvalue >= queryArgs.val }

lowest(set) == IF set = {} THEN 0 ELSE CHOOSE i \in set : \A j \in set : i <= j

\* C21: without settings, getValueLE(val) / getValueGE(val) return the first
\* candidate in list order that is neither Inconclusive nor conditional if
\* there is one, and otherwise the first candidate in list order (nullptr when
\* there is no candidate).
SelectsFirstPreferred ==
    (queryName \in {"getValueLE", "getValueGE"} /\ queryArgs.settings.null) =>
       LET preferred == { i \in candidates : neitherInconclusiveNorConditional(mValues.list[i]) }
       IN  queryResult = IF preferred # {} THEN lowest(preferred) ELSE lowest(candidates)

\* ----------------------------------------------------------------------- C22
\* C22: with non-null settings, the value that getValueLE, getValueGE or
\* getInvalidValue returns is not Inconclusive unless settings.inconclusive is
\* set, and has a null condition unless WARNING is among the enabled groups.
GatesRespected ==
    (/\ queryName \in {"getValueLE", "getValueGE", "getInvalidValue"}
     /\ ~queryArgs.settings.null
     /\ queryResult # 0) =>
       LET v == mValues.list[queryResult]
       IN  /\ v.valueKind = "Inconclusive" => queryArgs.settings.inconclusive
           /\ v.condition # Null => "WARNING" \in queryArgs.settings.mEnabled

\* getInvalidValue found only a conditional Inconclusive candidate and, with
\* inconclusive unset and only STYLE enabled, returned nullptr
GatesRespectedWitness ==
    /\ queryName = "getInvalidValue"
    /\ queryArgs.settings = [null |-> FALSE, inconclusive |-> FALSE, mEnabled |-> {"STYLE"}]
    /\ queryArgs.library.validInts = {}
    /\ Len(mValues.list) = 1
    /\ mValues.list[1].valueKind = "Inconclusive" /\ mValues.list[1].condition # Null
    /\ queryResult = 0

\* ========================================================= relative accessors
emptyString == <<>>

\* an accessor that cannot walk backwards
RECURSIVE tokAt_forwardOnly(_, _, _)
tokAt_forwardOnly(s, tok, index) ==
    IF index > 0 /\ tok # Null THEN tokAt_forwardOnly(s, s.next[tok], index - 1)
    ELSE tok

RECURSIVE tokAt(_, _, _)
tokAt(s, tok, index) ==
    IF index > 0 /\ tok # Null THEN tokAt(s, s.next[tok], index - 1)
    ELSE IF index < 0 /\ tok # Null THEN tokAt(s, s.prev[tok], index + 1)
    ELSE tok

\* [fault, ret]: InternalError is thrown when the position is outside the range
linkAt(s, this, index) ==
    LET tok == tokAt(s, this, index)
    IN  IF tok = Null THEN [fault |-> "InternalError", ret |-> Null]
        ELSE [fault |-> "none", ret |-> s.link[tok]]

strAt(s, this, index) ==
    LET tok == tokAt(s, this, index)
    IN  IF tok # Null THEN s.str[tok] ELSE emptyString

\* ------------------------------------------------------------------- SpecAt
\* Streams of one to InitLen tokens with bracket pairs, one accessor call at a
\* time; the index reaches past both ends of every stream.
AtIndexes == (0 - MaxTok) .. MaxTok

TokAt(this, index) ==
    /\ queryName = "none" /\ Running /\ this \in live
    /\ queryName' = "tokAt" /\ queryArgs' = [this |-> this, index |-> index]
    /\ queryResult' = tokAt(S, this, index)
    /\ UNCHANGED << streamVars, valueVars, callVars, settingsVars, projectVars >>

StrAt(this, index) ==
    /\ queryName = "none" /\ Running /\ this \in live
    /\ queryName' = "strAt" /\ queryArgs' = [this |-> this, index |-> index]
    /\ queryResult' = strAt(S, this, index)
    /\ UNCHANGED << streamVars, valueVars, callVars, settingsVars, projectVars >>

LinkAt(this, index) ==
    /\ queryName = "none" /\ Running /\ this \in live
    /\ queryName' = "linkAt" /\ queryArgs' = [this |-> this, index |-> index]
    /\ queryResult' = linkAt(S, this, index)
    /\ UNCHANGED << streamVars, valueVars, callVars, settingsVars, projectVars >>

InitAt == InitLink

\* the stream is not changed while a caller still holds a result
NextAt ==
    \/ \E a, b \in Tok : queryName = "none" /\ CreateMutualLinks(a, b)
    \/ \E t \in Tok, i \in AtIndexes : TokAt(t, i)
    \/ \E t \in Tok, i \in AtIndexes : StrAt(t, i)
    \/ \E t \in Tok, i \in AtIndexes : LinkAt(t, i)
    \/ QueryReturn

SpecAt == InitAt /\ [][NextAt]_vars

\* ----------------------------------------------------------------------- C23
\* the token index positions away from this, counted in the stream from its
\* first token; Null when that position is before the first or after the last
tokenAway(this, index) ==
    LET target == posOf(S, this) + index
    IN  IF target >= 1 /\ target <= Cardinality(live) THEN nth(S, front, target) ELSE Null

\* C23: tokAt(i) returns the token i positions away (forward for i > 0,
\* backward for i < 0) or null when that position is outside the stream;
\* strAt(i) returns that token's lexeme, or the empty string when outside;
\* linkAt(i) returns that token's link, and throws InternalError when outside.
RelativeAccess ==
    /\ queryName = "tokAt" => queryResult = tokenAway(queryArgs.this, queryArgs.index)
    /\ queryName = "strAt" =>
          LET tok == tokenAway(queryArgs.this, queryArgs.index)
          IN  queryResult = IF tok = Null THEN <<>> ELSE mStr[tok]
    /\ queryName = "linkAt" =>
          LET tok == tokenAway(queryArgs.this, queryArgs.index)
          IN  IF tok = Null THEN queryResult.fault = "InternalError"
              ELSE queryResult = [fault |-> "none", ret |-> mLink[tok]]

\* linkAt(-2) on the third token returned the first token's link, and
\* linkAt(1) on it would run off the stream
RelativeAccessWitness ==
    /\ queryName = "linkAt" /\ queryArgs = [this |-> 3, index |-> -2]
    /\ front = 1 /\ back = 3 /\ mLink[1] = 3
    /\ queryResult = [fault |-> "none", ret |-> 3]
    /\ linkAt(S, 3, 1).fault = "InternalError"
    /\ tokAt(S, 3, -3) = Null /\ strAt(S, 3, -1) = mStr[2]

\* ----------------------------------------------------------------------- C24
\* C24: after any sequence of createMutualLinks, deleteNext, deletePrevious,
\* deleteThis, swapWithNext, replace and eraseTokens calls that returned, no
\* token of the stream has a link that refers to a destroyed token.
NoLinkToDestroyed ==
    Returned => \A t \in live : mLink[t] # Null => mLink[t] \in live

\* ========================================================== template brackets
\* a >> that never closes
shiftCloses_never(depth) == FALSE

\* if (depth <= 2) return closing;
shiftCloses(depth) == depth <= 2

\* The loop of findClosingBracket from the token closing on. depth is at least
\* 1 at every > and >> (the scan starts on the receiver, a <, and only leaves
\* a >> with depth above 2), so the unsigned --depth never wraps.
RECURSIVE closingLoop(_, _, _)
closingLoop(s, closing, depth) ==
    IF closing = Null THEN Null
    ELSE IF Match(s, closing, <<"{","|","[","|","(">>, 0) = "true"
    THEN IF s.link[closing] = Null THEN Null
         ELSE closingLoop(s, s.next[s.link[closing]], depth)
    ELSE IF Match(s, closing, <<"}","|","]","|",")","|",";">>, 0) = "true"
    THEN Null
    ELSE IF s.str[closing] = <<"<">>
    THEN closingLoop(s, s.next[closing], depth + 1)
    ELSE IF s.str[closing] = <<">">>
    THEN IF depth - 1 = 0 THEN closing ELSE closingLoop(s, s.next[closing], depth - 1)
    ELSE IF s.str[closing] = <<">",">">>
    THEN IF shiftCloses(depth) THEN closing ELSE closingLoop(s, s.next[closing], depth - 2)
    ELSE closingLoop(s, s.next[closing], depth)

findClosingBracket(s, this) ==
    IF s.str[this] # <<"<">> THEN Null ELSE closingLoop(s, this, 0)

\* -------------------------------------------------------------- SpecBracket
MaxBracketTok == 7
BracketLen == 4

EmptyBracketStream ==
    [EmptyStream EXCEPT
       !.next = [t \in 1 .. MaxBracketTok |-> Null], !.prev = [t \in 1 .. MaxBracketTok |-> Null],
       !.link = [t \in 1 .. MaxBracketTok |-> Null], !.str = [t \in 1 .. MaxBracketTok |-> <<>>],
       !.kind = [t \in 1 .. MaxBracketTok |-> "eNone"],
       !.flags = [t \in 1 .. MaxBracketTok |-> NoFlags],
       !.impl = [t \in 1 .. MaxBracketTok |-> NoImpl]]

BracketLexemes == { <<"<">>, <<">">>, <<">",">">>, <<"(">>, <<")">>, <<";">>, <<"a">> }

\* every short stream, and longer ones with deeper nesting and other brackets
BracketStreams ==
    UNION { [1 .. n -> BracketLexemes] : n \in 1 .. BracketLen }
    \cup { << <<"A">>, <<"<">>, <<"B">>, <<"<">>, <<"C">>, <<">",">">>, <<"D">> >>,
           << <<"<">>, <<"<">>, <<"<">>, <<">",">">>, <<">">> >>,
           << <<"<">>, <<"<">>, <<"<">>, <<"<">>, <<">",">">>, <<">",">">> >>,
           << <<"<">>, <<"{">>, <<">">>, <<"}">>, <<">">> >>,
           << <<"<">>, <<"[">>, <<";">>, <<"]">>, <<">">> >>,
           << <<"<">>, <<"a">>, <<"]">>, <<">">>, <<">">> >>,
           << <<"<">>, <<"a">>, <<"}">>, <<">">>, <<">">> >>,
           << <<"<">>, <<"[">>, <<">">> >>,
           << <<"<">>, <<"{">>, <<">">> >>,
           << <<"<">>, <<"<">>, <<"a">>, <<">">>, <<"[">>, <<"]">>, <<">">> >> }

closerOf(lexeme) ==
    IF lexeme = <<"(">> THEN <<")">>
    ELSE IF lexeme = <<"[">> THEN <<"]">>
    ELSE IF lexeme = <<"{">> THEN <<"}">>
    ELSE <<>>

\* no bracket pair, or one: an opening bracket and a later closing one of its sort
BracketPairs(strs) ==
    { <<0, 0>> } \cup { <<i, j>> \in (1 .. Len(strs)) \X (1 .. Len(strs)) :
                           i < j /\ strs[j] = closerOf(strs[i]) }

bracketStream(strs, pair) ==
    LET s == appendTokens(EmptyBracketStream, strs)
    IN  IF pair[1] = 0 THEN s ELSE createMutualLinks(s, pair[1], pair[2])

\* The loop of findOpeningBracket from the token opening backwards. depth is
\* at least 1 at every < (the scan starts on the receiver, a >), so the
\* unsigned --depth never wraps.
RECURSIVE openingLoop(_, _, _)
openingLoop(s, opening, depth) ==
    IF opening = Null THEN Null
    ELSE IF Match(s, opening, <<"}","|","]","|",")">>, 0) = "true"
    THEN IF s.link[opening] = Null THEN Null
         ELSE openingLoop(s, s.prev[s.link[opening]], depth)
    ELSE IF Match(s, opening, <<"{","|","{","|","(","|",";">>, 0) = "true"
    THEN Null
    ELSE IF s.str[opening] = <<">">>
    THEN openingLoop(s, s.prev[opening], depth + 1)
    ELSE IF s.str[opening] = <<"<">>
    THEN IF depth - 1 = 0 THEN opening ELSE openingLoop(s, s.prev[opening], depth - 1)
    ELSE openingLoop(s, s.prev[opening], depth)

findOpeningBracket(s, this) ==
    IF s.str[this] # <<">">> THEN Null ELSE openingLoop(s, this, 0)

FindOpeningBracket(this) ==
    /\ queryName = "none" /\ Running /\ this \in live
    /\ queryName' = "findOpeningBracket" /\ queryArgs' = [this |-> this]
    /\ queryResult' = findOpeningBracket(S, this)
    /\ UNCHANGED << streamVars, valueVars, callVars, settingsVars, projectVars >>

FindClosingBracket(this) ==
    /\ queryName = "none" /\ Running /\ this \in live
    /\ queryName' = "findClosingBracket" /\ queryArgs' = [this |-> this]
    /\ queryResult' = findClosingBracket(S, this)
    /\ UNCHANGED << streamVars, valueVars, callVars, settingsVars, projectVars >>

InitBracket ==
    /\ \E strs \in BracketStreams : \E pair \in BracketPairs(strs) :
          Holds(bracketStream(strs, pair))
    /\ InitNoValues

NextBracket ==
    \/ \E t \in 1 .. MaxBracketTok : FindClosingBracket(t)
    \/ \E t \in 1 .. MaxBracketTok : FindOpeningBracket(t)
    \/ QueryReturn

SpecBracket == InitBracket /\ [][NextBracket]_vars

\* ----------------------------------------------------------------------- C25
\* the scan as the claim words it, from token tok with the depth reached so far
RECURSIVE scanForClose(_, _)
scanForClose(tok, depth) ==
    IF tok = Null THEN Null
    ELSE IF mStr[tok] \in { <<"{">>, <<"[">>, <<"(">> }
    THEN IF mLink[tok] = Null THEN Null ELSE scanForClose(mNext[mLink[tok]], depth)
    ELSE IF mStr[tok] \in { <<"}">>, <<"]">>, <<")">>, <<";">> } THEN Null
    ELSE IF mStr[tok] = <<"<">> THEN scanForClose(mNext[tok], depth + 1)
    ELSE IF mStr[tok] = <<">">>
    THEN IF depth = 1 THEN tok ELSE scanForClose(mNext[tok], depth - 1)
    ELSE IF mStr[tok] = <<">",">">>
    THEN IF depth <= 2 THEN tok ELSE scanForClose(mNext[tok], depth - 2)
    ELSE scanForClose(mNext[tok], depth)

\* the lexemes between tok and the result hold no bracket, ; or >>
plainUpTo(tok, last) ==
    \A t \in rangeSet(S, tok, last, MaxBracketTok) :
       mStr[t] \in { <<"<">>, <<">">>, <<"a">>, <<"A">>, <<"B">>, <<"C">>, <<"D">> }

\* number of < minus number of > among the tokens from tok to last
RECURSIVE balance(_, _)
balance(tok, last) ==
    (IF mStr[tok] = <<"<">> THEN 1 ELSE IF mStr[tok] = <<">">> THEN 0 - 1 ELSE 0)
       + (IF tok = last THEN 0 ELSE balance(mNext[tok], last))

\* C25: findClosingBracket on a < token scans forward with a depth counter:
\* each < increments it, a > that brings it to 0 is returned, a >> is returned
\* when the depth is at most 2 and otherwise lowers it by 2, linked {, [ and (
\* are skipped to their peer, and the result is null at a }, ], ) or ; of the
\* scanned level, at an opening bracket without link, at the end of the stream
\* and on a receiver that is not <; a > result closes a balanced < .. > range.
ClosingBracketScan ==
    queryName = "findClosingBracket" =>
       /\ queryResult = IF mStr[queryArgs.this] = <<"<">>
                        THEN scanForClose(queryArgs.this, 0) ELSE Null
       /\ (queryResult # Null /\ plainUpTo(queryArgs.this, queryResult)) =>
             /\ mStr[queryResult] = <<">">>
             /\ balance(queryArgs.this, queryResult) = 0

\* on "A < B < C >> D" the call on the first < returned the >> token
ClosingBracketScanWitness ==
    /\ queryName = "findClosingBracket" /\ queryArgs.this = 2
    /\ lexemesAre(front, << <<"A">>, <<"<">>, <<"B">>, <<"<">>, <<"C">>, <<">",">">>, <<"D">> >>)
    /\ queryResult = 6 /\ mStr[6] = <<">",">">>

\* ----------------------------------------------------------------------- C26
\* token t of stream r holds the state (str, kind, flags, impl) that token
\* from holds now
holdsStateOf(r, t, from) ==
    /\ r.str[t] = mStr[from] /\ r.kind[t] = mTokType[from]
    /\ r.flags[t] = mFlags[from] /\ r.impl[t] = mImpl[from]

\* C26: in a well-formed stream, deleteThis on a token with a successor copies
\* the successor's state into the receiver and removes the successor; on a
\* token without successor but with a predecessor it copies the predecessor's
\* state and removes the predecessor (also in a stream of two tokens); only on
\* a token with neither neighbour does it blank str and keep the token.
DeleteThisCases ==
    wellFormed(S) =>
      \A t \in live :
         LET r == deleteThis(S, t)
         IN  IF mNext[t] # Null
             THEN r.live = live \ {mNext[t]} /\ holdsStateOf(r, t, mNext[t])
             ELSE IF mPrevious[t] # Null
             THEN r.live = live \ {mPrevious[t]} /\ holdsStateOf(r, t, mPrevious[t])
             ELSE r.live = live /\ r.str[t] = <<>>

\* ----------------------------------------------------------------------- C27
\* every link of the stream is one half of a pair of two different tokens
properPairs ==
    \A t \in live : mLink[t] # Null => (mLink[t] \in live /\ mLink[t] # t /\ mLink[mLink[t]] = t)

\* C27: in a well-formed stream whose links are proper pairs, after
\* T.swapWithNext() with successor N the str, kind, flags and impl formerly
\* held by T are held by N and vice versa, a link to a third token has moved
\* with them, each of T and N that holds a link is the link of its peer, and
\* when T and N were linked to each other they still are, not to themselves.
SwapKeepsPairs ==
    (wellFormed(S) /\ properPairs) =>
      \A t \in live :
        mNext[t] # Null =>
          LET n == mNext[t]
              r == swapWithNext(S, t)
          IN  /\ r.str[t] = mStr[n] /\ r.str[n] = mStr[t]
              /\ r.kind[t] = mTokType[n] /\ r.kind[n] = mTokType[t]
              /\ r.flags[t] = mFlags[n] /\ r.flags[n] = mFlags[t]
              /\ r.impl[t] = mImpl[n] /\ r.impl[n] = mImpl[t]
              /\ mLink[t] # n => (r.link[n] = mLink[t] /\ r.link[t] = mLink[n])
              /\ \A x \in {t, n} : r.link[x] # Null => r.link[r.link[x]] = x
              /\ mLink[t] = n => (r.link[t] = n /\ r.link[n] = t)

\* --------------------------------------------------------------- SpecInsert
\* Streams whose tokens the tokenizer has given a place in the sources and a
\* progress value; deleteThis on a last token leaves the blank placeholder.
Locations == { [lineNumber |-> 1, fileIndex |-> 0], [lineNumber |-> 2, fileIndex |-> 1] }

\* Token::linenr(n) and Token::fileIndex(i) on the token at every position
locate(s, locs) ==
    [s EXCEPT !.impl = [t \in DOMAIN s.impl |->
                           IF t \in DOMAIN locs
                           THEN [s.impl[t] EXCEPT !.lineNumber = locs[t].lineNumber,
                                                  !.fileIndex = locs[t].fileIndex]
                           ELSE s.impl[t]]]

InitInsert ==
    /\ \E n \in 1 .. InitLen - 1 : \E strs \in LexSeqs(n), locs \in [1 .. n -> Locations] :
          Holds(locate(BuildStream(strs), locs))
    /\ InitNoValues

NextInsert ==
    \/ \E t \in Tok, l \in Lexemes, b \in BOOLEAN : InsertToken(t, l, b)
    \/ \E t \in Tok : DeleteThis(t)

SpecInsert == InitInsert /\ [][NextInsert]_vars

\* ----------------------------------------------------------------------- C28
sameOrigin(r, a, t) ==
    /\ r.impl[a].lineNumber = mImpl[t].lineNumber
    /\ r.impl[a].fileIndex = mImpl[t].fileIndex
    /\ r.impl[a].progress = mImpl[t].progress

\* C28: insertToken on a receiver with an empty lexeme allocates nothing: the
\* receiver takes the lexeme, and the set of tokens, every neighbour pointer,
\* the receiver's file_index, line_number and progress_value and the anchor
\* are unchanged. On a receiver with a lexeme exactly one new token is spliced
\* in directly after (with prepend: before) it, with the receiver's
\* file_index, line_number and progress_value, and the anchor's back (front)
\* moves to it exactly when the receiver was the last (first) token.
InsertFrame ==
    wellFormed(S) =>
      \A t \in live, lexeme \in Lexemes, prepend \in BOOLEAN :
        (mStr[t] = <<>> \/ allocated < MaxTok) =>
          LET r == insertToken(S, t, lexeme, prepend)
              new == r.live \ live
          IN  IF mStr[t] = <<>>
              THEN /\ r.live = live /\ r.alloc = allocated /\ r.str[t] = lexeme
                   /\ r.next = mNext /\ r.prev = mPrevious
                   /\ sameOrigin(r, t, t)
                   /\ r.front = front /\ r.back = back
              ELSE /\ live \subseteq r.live /\ Cardinality(new) = 1
                   /\ \A a \in new :
                        /\ r.str[a] = lexeme /\ sameOrigin(r, a, t)
                        /\ IF prepend
                           THEN /\ r.next[a] = t /\ r.prev[t] = a
                                /\ r.prev[a] = mPrevious[t]
                                /\ mPrevious[t] # Null => r.next[mPrevious[t]] = a
                                /\ r.front = (IF front = t THEN a ELSE front)
                                /\ r.back = back
                           ELSE /\ r.prev[a] = t /\ r.next[t] = a
                                /\ r.next[a] = mNext[t]
                                /\ mNext[t] # Null => r.prev[mNext[t]] = a
                                /\ r.back = (IF back = t THEN a ELSE back)
                                /\ r.front = front
                        /\ \A x \in live \ {t, mNext[t], mPrevious[t]} :
                              r.next[x] = mNext[x] /\ r.prev[x] = mPrevious[x]
                   /\ r.str[t] = mStr[t] /\ sameOrigin(r, t, t)
                   /\ wellFormed(r)

\* a token inserted before the first token is the front and has the first
\* token's place in the sources, and the stream also holds a blank token that
\* the next insertToken on it would reuse
InsertFrameWitness ==
    /\ wellFormed(S) /\ allocated = 3 /\ front = 3 /\ mNext[3] = 1
    /\ mImpl[3].lineNumber = 2 /\ mImpl[3].fileIndex = 1 /\ mImpl[1].lineNumber = 2
    /\ mImpl[3].progress = mImpl[1].progress
    /\ mStr[back] = <<>> /\ back # front
    /\ insertToken(S, back, <<"a">>, FALSE).live = live

\* ----------------------------------------------------------------- SpecMove
InitMove == InitInsert

NextMove ==
    \/ \E t \in Tok, l \in Lexemes, b \in BOOLEAN : InsertToken(t, l, b)
    \/ \E a, b, c \in Tok : Move(a, b, c)

SpecMove == InitMove /\ [][NextMove]_vars

\* ----------------------------------------------------------------------- C29
\* the tokens from t on, following next
RECURSIVE tokensFrom(_, _, _)
tokensFrom(s, t, fuel) ==
    IF t = Null \/ fuel = 0 THEN <<>>
    ELSE <<t>> \o tokensFrom(s, s.next[t], fuel - 1)

\* the tokens of the stream in order, with the range taken out and put back
\* directly after newLocation
relocated(srcStart, srcEnd, newLocation) ==
    LET range == rangeSet(S, srcStart, srcEnd, MaxTok)
        all == tokensFrom(S, front, MaxTok + 1)
        moved == SelectSeq(all, LAMBDA t : t \in range)
        rest == SelectSeq(all, LAMBDA t : t \notin range)
        k == CHOOSE i \in 1 .. Len(rest) : rest[i] = newLocation
    IN  SubSeq(rest, 1, k) \o moved \o SubSeq(rest, k + 1, Len(rest))

\* C29: in a well-formed stream, move(srcStart, srcEnd, newLocation) with a
\* contiguous range and a newLocation outside it returns and leaves the stream
\* in which the range, in its order, directly follows newLocation and the other
\* tokens keep their order, with newLocation's progress_value on every moved
\* token; also for a range that starts at the first token or ends at the last
\* one and for a newLocation that is the last token.
MoveRelocates ==
    wellFormed(S) =>
      \A srcStart, srcEnd, newLocation \in live :
        (/\ IsRange(S, srcStart, srcEnd)
         /\ newLocation \notin rangeSet(S, srcStart, srcEnd, MaxTok)) =>
           LET r == move(S, srcStart, srcEnd, newLocation)
               order == relocated(srcStart, srcEnd, newLocation)
           IN  /\ r.fault = "none"
               /\ r.live = live
               /\ \A i \in 1 .. Len(order) :
                     /\ r.next[order[i]] = (IF i < Len(order) THEN order[i + 1] ELSE Null)
                     /\ r.prev[order[i]] = (IF i > 1 THEN order[i - 1] ELSE Null)
               /\ \A t \in rangeSet(S, srcStart, srcEnd, MaxTok) :
                     r.impl[t].progress = mImpl[newLocation].progress

\* ----------------------------------------------------------------------- C30
\* the tokens of the stream in order, with the range taken out of its place
\* and put in the place of old
substituted(old, start, end) ==
    LET range == rangeSet(S, start, end, MaxTok)
        all == tokensFrom(S, front, MaxTok + 1)
        moved == SelectSeq(all, LAMBDA t : t \in range)
        rest == SelectSeq(all, LAMBDA t : t \notin range)
        k == CHOOSE i \in 1 .. Len(rest) : rest[i] = old
    IN  SubSeq(rest, 1, k - 1) \o moved \o SubSeq(rest, k + 1, Len(rest))

\* C30: in a well-formed stream, replace(old, start, end) with a contiguous
\* range that does not hold old puts the range at old's position (old's
\* predecessor precedes start, old's successor follows end), closes the gap the
\* range leaves, destroys old and, if end was the last token of the stream,
\* sets the anchor's back to the token that is last after the call.
ReplaceSplices ==
    wellFormed(S) =>
      \A old, start, end \in live :
        (IsRange(S, start, end) /\ old \notin rangeSet(S, start, end, MaxTok)) =>
           LET r == replace(S, old, start, end)
               order == substituted(old, start, end)
           IN  /\ r.fault = "none"
               /\ r.live = live \ {old}
               /\ \A i \in 1 .. Len(order) :
                     /\ r.next[order[i]] = (IF i < Len(order) THEN order[i + 1] ELSE Null)
                     /\ r.prev[order[i]] = (IF i > 1 THEN order[i - 1] ELSE Null)
               /\ end = back => r.back = order[Len(order)]

\* replace(first, third, third) has been called on a stream of three tokens:
\* the third token now precedes the second, which the anchor's back designates
ReplaceSplicesWitness ==
    /\ fault = "none" /\ allocated = 3 /\ live = {2, 3}
    /\ mPrevious[3] = Null /\ mNext[3] = 2 /\ mPrevious[2] = 3 /\ mNext[2] = Null
    /\ back = 2

\* ----------------------------------------------------------------------- C31
\* C31: when P.astOperand1(tok) (resp. astOperand2) with tok non-null returns
\* normally, P's operand1 (resp. operand2) is tok itself and the operand that
\* was in that slot before, if it is another token, has ast_parent null; also
\* when tok had an ast_parent before the call.
OperandInstalled ==
    Returned =>
      \A p \in live, tok \in live :
        LET r1 == astOperand1(Cur, p, tok)
            r2 == astOperand2(Cur, p, tok)
            old1 == mImpl[p].op1
            old2 == mImpl[p].op2
        IN  /\ r1.fault = "none" =>
                 /\ r1.impl[p].op1 = tok
                 /\ (old1 # Null /\ old1 # tok) => r1.impl[old1].parent = Null
            /\ r2.fault = "none" =>
                 /\ r2.impl[p].op2 = tok
                 /\ (old2 # Null /\ old2 # tok) => r2.impl[old2].parent = Null

\* ----------------------------------------------------------------------- C32
\* a Known Int value, if the list holds one, is the first element
knownIntLeads ==
    \A i \in 1 .. Len(mValues.list) :
       (mValues.list[i].valueKind = "Known" /\ mValues.list[i].valueType = "INT") => i = 1

\* the argument of the last call as the list stores it
stored == [lastValue EXCEPT !.varId = tokenVarId]

\* the list the last call found, with the argument at the front if it is a
\* Known Int and at the back otherwise
pushed ==
    IF lastValue.valueKind = "Known" /\ lastValue.valueType = "INT"
    THEN <<stored>> \o afterPurge ELSE Append(afterPurge, stored)

RECURSIVE scanForOpen(_, _)
scanForOpen(tok, depth) ==
    IF tok = Null THEN Null
    ELSE IF mStr[tok] \in { <<"}">>, <<"]">>, <<")">> }
    THEN IF mLink[tok] = Null THEN Null ELSE scanForOpen(mPrevious[mLink[tok]], depth)
    ELSE IF mStr[tok] \in { <<"{">>, <<"[">>, <<"(">>, <<";">> } THEN Null
    ELSE IF mStr[tok] = <<">">> THEN scanForOpen(mPrevious[tok], depth + 1)
    ELSE IF mStr[tok] = <<"<">>
    THEN IF depth = 1 THEN tok ELSE scanForOpen(mPrevious[tok], depth - 1)
    ELSE scanForOpen(mPrevious[tok], depth)

\* C33: findOpeningBracket on a > token mirrors findClosingBracket: scanning
\* backwards it increments depth on each >, returns the < that brings depth to
\* 0, skips linked }, ] and ) to their peer, and returns null at an unmatched
\* {, [ or ( or a ; of the scanned level, at a closing bracket without link,
\* at the start of the stream and on a receiver that is not >.
OpeningBracketScan ==
    queryName = "findOpeningBracket" =>
       queryResult = IF mStr[queryArgs.this] = <<">">>
                     THEN scanForOpen(queryArgs.this, 0) ELSE Null

\* ============================================================ value equality
\* ValueFlow::Value::operator==: the payload of the value's own type, then the
\* metadata; errorPath is not part of the modelled value
valueEquals(lhs, rhs) ==
    IF lhs.valueType # rhs.valueType THEN FALSE
    ELSE IF lhs.valueType \in {"INT", "BUFFER_SIZE", "CONTAINER_SIZE"} /\ lhs.intvalue # rhs.intvalue
    THEN FALSE
    ELSE IF lhs.valueType \in {"TOK", "LIFETIME"} /\ lhs.tokvalue # rhs.tokvalue
    THEN FALSE
    ELSE IF lhs.valueType = "FLOAT" /\ (lhs.floatValue > rhs.floatValue \/ lhs.floatValue < rhs.floatValue)
    THEN FALSE
    ELSE IF lhs.valueType = "MOVED" /\ lhs.moveKind # rhs.moveKind
    THEN FALSE
    ELSE /\ lhs.varvalue = rhs.varvalue
         /\ lhs.condition = rhs.condition
         /\ lhs.varId = rhs.varId
         /\ lhs.conditional = rhs.conditional
         /\ lhs.defaultArg = rhs.defaultArg
         /\ lhs.valueKind = rhs.valueKind

\* ------------------------------------------------------------------- SpecEq
ValueTypes ==
    {"INT", "TOK", "FLOAT", "MOVED", "UNINIT", "CONTAINER_SIZE", "LIFETIME", "BUFFER_SIZE"}

\* one value of every type, as ValueFlow::Value(0) with the type set
EqValues == { [MkValue(0) EXCEPT !.valueType = vt] : vt \in ValueTypes }

\* v itself, and v with one field changed
variants(v) ==
    {v} \cup { [v EXCEPT !.valueType = vt] : vt \in ValueTypes }
        \cup { [v EXCEPT !.intvalue = 1], [v EXCEPT !.tokvalue = 1],
               [v EXCEPT !.floatValue = 1], [v EXCEPT !.moveKind = "MovedVariable"],
               [v EXCEPT !.varvalue = 1], [v EXCEPT !.condition = 2],
               [v EXCEPT !.varId = 7], [v EXCEPT !.conditional = TRUE],
               [v EXCEPT !.defaultArg = TRUE], [v EXCEPT !.lifetimeKind = "Lambda"],
               [v EXCEPT !.lifetimeScope = "Argument"], [v EXCEPT !.valueKind = "Known"] }

ValueEquals(lhs, rhs) ==
    /\ queryName = "none"
    /\ queryName' = "operator==" /\ queryArgs' = [lhs |-> lhs, rhs |-> rhs]
    /\ queryResult' = valueEquals(lhs, rhs)
    /\ UNCHANGED << streamVars, valueVars, callVars, settingsVars, projectVars >>

InitEq ==
    /\ Holds(plainStream(2))
    /\ InitNoValues

NextEq ==
    \/ \E lhs \in EqValues : \E rhs \in variants(lhs) : ValueEquals(lhs, rhs)
    \/ \E rhs \in EqValues : \E lhs \in variants(rhs) : ValueEquals(lhs, rhs)
    \/ QueryReturn

SpecEq == InitEq /\ [][NextEq]_vars

\* ----------------------------------------------------------------------- C34
\* C34: two values compare equal iff they agree on value_type, on intvalue,
\* tokvalue, float_value and move_kind, and on varvalue, condition, var_id,
\* conditional, default_arg, lifetime_kind, lifetime_scope and kind.
EqualityAllFields ==
    queryName = "operator==" => (queryResult <=> queryArgs.lhs = queryArgs.rhs)

\* ============================================================ pattern search
\* Settings::terminate(t), called from another thread at any time
Terminate(t) ==
    /\ mTerminated' = t
    /\ UNCHANGED << streamVars, valueVars, callVars, queryVars, projectVars >>

\* Token::findmatch(startTok, pattern, end, varId) and Token::findsimplematch(
\* startTok, pattern, end), one loop iteration per step; the overloads without
\* end run the same loop as these with end = nullptr.  callTok is the loop's
\* tok, callResult is "scanning" until the function returns.
FindStart(name, startTok, pattern, end, varid) ==
    /\ callName = "none" /\ queryName = "none"
    /\ startTok \in live \cup {Null} /\ end \in live \cup {Null}
    /\ callName' = name /\ callTok' = startTok /\ callPattern' = pattern
    /\ callVarid' = varid /\ callResult' = "scanning"
    /\ queryName' = name /\ queryArgs' = [startTok |-> startTok, end |-> end]
    /\ queryResult' = Null
    /\ UNCHANGED << streamVars, valueVars, settingsVars, projectVars >>

FindStep ==
    /\ callName \in {"findmatch", "findsimplematch"} /\ callResult = "scanning"
    /\ IF callTok = Null \/ callTok = queryArgs.end
       THEN callResult' = "nullptr" /\ callTok' = Null
       ELSE LET m == IF callName = "findmatch" THEN Match(S, callTok, callPattern, callVarid)
                     ELSE IF simpleMatch(S, callTok, callPattern) THEN "true" ELSE "false"
            IN  IF m = "true" THEN callResult' = "found" /\ callTok' = callTok
                ELSE IF m = "InternalError"
                THEN callResult' = "InternalError" /\ callTok' = callTok
                ELSE callResult' = "scanning" /\ callTok' = mNext[callTok]
    /\ UNCHANGED << callName, callPattern, callVarid >>
    /\ UNCHANGED << streamVars, valueVars, queryVars, settingsVars, projectVars >>

\* the caller has taken the result
FindReturn ==
    /\ callName \in {"findmatch", "findsimplematch"} /\ callResult # "scanning"
    /\ callName' = "none" /\ callTok' = Null /\ callPattern' = <<>>
    /\ callVarid' = 0 /\ callResult' = "none"
    /\ queryName' = "none" /\ queryArgs' = <<>> /\ queryResult' = Null
    /\ UNCHANGED << streamVars, valueVars, settingsVars, projectVars >>

\* ----------------------------------------------------------------- SpecFind
FindPatterns == { <<"x">>, <<"%","v","a","r","i","d","%">>, <<"=","="," ","%","a","n","y","%">> }
FindVarids == {0, 8}

InitFind == InitMatch

NextFind ==
    \/ \E t \in BOOLEAN : Terminate(t)
    \/ \E tok, end \in 0 .. MaxMatchTok, p \in FindPatterns, v \in FindVarids :
          FindStart("findmatch", tok, p, end, v)
    \/ \E tok, end \in 0 .. MaxMatchTok, p \in FindPatterns :
          FindStart("findsimplematch", tok, p, end, 0)
    \/ FindStep
    \/ FindReturn

SpecFind == InitFind /\ [][NextFind]_vars

\* ----------------------------------------------------------------------- C35
\* once set, the flag stays set
TerminateSticky == [][mTerminated => mTerminated']_vars

\* C35: once Settings::terminate() has set the flag, a findmatch or
\* findsimplematch scan observes it at its next check-point: a scan that takes
\* a step while the flag is set returns with that step instead of going on to
\* the next token of the stream.
TerminateObserved ==
    [][ (mTerminated /\ callResult = "scanning" /\ callTok' # callTok) =>
           callResult' # "scanning" ]_vars

\* ----------------------------------------------------------------------- C36
\* v may be returned under settings: it is not Inconclusive unless
\* settings.inconclusive, and has no condition unless WARNING is enabled
admissible(v, settings) ==
    \/ settings.null
    \/ /\ v.valueKind = "Inconclusive" => settings.inconclusive
       /\ v.condition # Null => "WARNING" \in settings.mEnabled

\* C36: whenever the value list holds an Int value that satisfies the relation
\* of getValueLE(val, settings) / getValueGE(val, settings) and is admissible
\* under settings, the call returns a value, not nullptr.
GatesComplete ==
    (/\ queryName \in {"getValueLE", "getValueGE"}
     /\ \E i \in candidates : admissible(mValues.list[i], queryArgs.settings)) =>
        queryResult # 0

\* --------------------------------------------------------------- SpecRefuse
\* addValue on lists at and just below the limit
InitRefuse ==
    /\ Holds(appendTokens(EmptyStream, << <<"a">>, <<"a">>, <<"<">> >>))
    /\ \E n \in (ValuesLimit - 2) .. ValuesLimit :
          mValues = [null |-> FALSE, list |-> fillerList(n)]
    /\ tokenVarId = 7
    /\ lastValue = MkValue(0) /\ lastResult = "none" /\ prevValues = NullValues
    /\ NoCall

SpecRefuse == InitRefuse /\ [][NextValues]_vars

\* ----------------------------------------------------------------------- C37
\* C37: whenever addValue returns false, the value list is as it was before
\* the call, same elements in the same order; a Known argument that is
\* refused has purged nothing.
RefusalLeavesList == lastResult = "false" => mValues = prevValues

\* Known Int 5 was refused by a full list that holds no Int value: nothing was
\* purged
RefusalLeavesListWitness ==
    /\ lastResult = "false" /\ lastValue = [MkValue(5) EXCEPT !.valueKind = "Known"]
    /\ Len(prevValues.list) = ValuesLimit /\ mValues = prevValues
    /\ \E i \in 1 .. Len(prevValues.list) : prevValues.list[i].valueType = "TOK"

\* -------------------------------------------------------------- SpecPayload
\* addValue with Int, Float and Moved values that differ in their payload only
FloatArgs ==
    { [MkValue(0) EXCEPT !.valueType = "FLOAT", !.floatValue = f, !.valueKind = k] :
         f \in {1, 2}, k \in {"Possible", "Inconclusive"} }
MovedArgs ==
    { [MkValue(0) EXCEPT !.valueType = "MOVED", !.moveKind = mk, !.valueKind = k] :
         mk \in {"MovedVariable", "ForwardedVariable"}, k \in {"Possible", "Inconclusive"} }
PayloadArgs ==
    { v \in IntArgs : v.valueKind # "Known" } \cup FloatArgs \cup MovedArgs

InitPayload ==
    /\ Holds(appendTokens(EmptyStream, << <<"a">>, <<"a">>, <<"<">> >>))
    /\ mValues = NullValues
    /\ tokenVarId = 7
    /\ lastValue = MkValue(0) /\ lastResult = "none" /\ prevValues = NullValues
    /\ NoCall

NextPayload == \E v \in PayloadArgs : AddValue(v)

SpecPayload == InitPayload /\ [][NextPayload]_vars

\* ----------------------------------------------------------------------- C38
\* the field that carries the value of a value of this type
payload(v) ==
    CASE v.valueType \in {"INT", "BUFFER_SIZE", "CONTAINER_SIZE"} -> v.intvalue
      [] v.valueType \in {"TOK", "LIFETIME"} -> v.tokvalue
      [] v.valueType = "FLOAT" -> v.floatValue
      [] v.valueType = "MOVED" -> v.moveKind
      [] OTHER -> 0

\* C38: addValue discards a non-Known value on a list below capacity only if
\* the list already holds a value of the same type with the same payload; two
\* values of one type with different payloads are both retained.
DiscardsOnlySamePayload ==
    (/\ lastResult = "false" /\ lastValue.valueKind # "Known"
     /\ Len(prevValues.list) < ValuesLimit)
       => \E i \in 1 .. Len(prevValues.list) :
             /\ prevValues.list[i].valueType = lastValue.valueType
             /\ payload(prevValues.list[i]) = payload(lastValue)

\* ================================================================ ProjectFile
\* QXmlStreamReader::readNext: the next event of the file; once the events are
\* used up (a truncated or malformed document, or a call after EndDocument)
\* the reader reports Invalid, and keeps reporting it
readNext(reader, file) ==
    IF reader.pos < Len(file.events)
    THEN [pos |-> reader.pos + 1, cur |-> file.events[reader.pos + 1],
          calls |-> reader.calls + 1]
    ELSE [reader EXCEPT !.cur = XmlEvent("Invalid", "", {}, ""), !.calls = @ + 1]

\* QXmlStreamReader::atEnd: the document was read to its end, or an error
\* stopped the reading
atEnd(reader) == reader.cur.type \in {"EndDocument", "Invalid"}

\* attributes().value(QString(), name).toString(): empty when there is none
attribute(event, name) ==
    IF \E a \in event.attrs : a[1] = name
    THEN (CHOOSE a \in event.attrs : a[1] = name)[2]
    ELSE ""

\* QString::toInt on the texts the documents hold: 0 when it is not a number
toInt(text) ==
    CASE text = "3" -> 3
      [] text = "10" -> 10
      [] OTHER -> 0

CLANG_ANALYZER == "clang-analyzer"
CLANG_TIDY == "clang-tidy"

\* The ifs of read()'s StartElement case, in their order: the element name
\* tested, the routine called, the member it fills and the child element the
\* routine looks for.
Elements ==
    << [name |-> "root", reader |-> "readRootPath", member |-> "mRootPath", child |-> ""],
       [name |-> "builddir", reader |-> "readBuildDir", member |-> "mBuildDir", child |-> ""],
       [name |-> "paths", reader |-> "readCheckPaths", member |-> "mPaths", child |-> "dir"],
       [name |-> "importproject", reader |-> "readImportProject", member |-> "mImportProject", child |-> ""],
       [name |-> "analyze-all-vs-configs", reader |-> "readBool", member |-> "mAnalyzeAllVsConfigs", child |-> ""],
       [name |-> "check-headers", reader |-> "readBool", member |-> "mCheckHeaders", child |-> ""],
       [name |-> "check-unused-templates", reader |-> "readBool", member |-> "mCheckUnusedTemplates", child |-> ""],
       [name |-> "includedir", reader |-> "readIncludeDirs", member |-> "mIncludeDirs", child |-> "dir"],
       [name |-> "defines", reader |-> "readDefines", member |-> "mDefines", child |-> "define"],
       [name |-> "undefines", reader |-> "readStringList", member |-> "mUndefines", child |-> "undefine"],
       [name |-> "exclude", reader |-> "readExcludes", member |-> "mExcludedPaths", child |-> "path"],
       [name |-> "ignore", reader |-> "readExcludes", member |-> "mExcludedPaths", child |-> "path"],
       [name |-> "libraries", reader |-> "readStringList", member |-> "mLibraries", child |-> "library"],
       [name |-> "platform", reader |-> "readPlatform", member |-> "mPlatform", child |-> ""],
       [name |-> "suppressions", reader |-> "readSuppressions", member |-> "mSuppressions", child |-> "suppression"],
       [name |-> "check-unknown-function-return-values", reader |-> "readStringList",
        member |-> "mCheckUnknownFunctionReturn", child |-> "name"],
       [name |-> "check-all-function-parameter-values", reader |-> "set",
        member |-> "mCheckAllFunctionParameterValues", child |-> ""],
       [name |-> "addons", reader |-> "readStringList", member |-> "mAddons", child |-> "addon"],
       [name |-> "tools", reader |-> "readStringList", member |-> "tools", child |-> "tool"],
       [name |-> "tags", reader |-> "readStringList", member |-> "mTags", child |-> "tag"],
       [name |-> "max-ctu-depth", reader |-> "readInt", member |-> "mMaxCtuDepth", child |-> ""] >>

\* the routines that return at the first Characters or EndElement event
TextReaders == {"readBuildDir", "readImportProject", "readBool", "readInt", "readPlatform"}

\* the routines that collect the name attribute of their child elements
NameReaders == {"readIncludeDirs", "readDefines", "readCheckPaths", "readExcludes"}

\* a member of the project with a new value
setMember(project, member, value) == [project EXCEPT ![member] = value]

\* ProjectFile::readRootPath
readRootPath(project, reader) ==
    LET name == attribute(reader.cur, "name")
    IN  IF name # "" THEN [project EXCEPT !.mRootPath = name] ELSE project

\* The chain of ifs from the k-th on, with the reader's current name(): the
\* routines that read no event are run at once, a routine with a loop is
\* entered (pc "element"); past the last if the switch breaks to the loop of
\* read().  p is [project, reader, call].
RECURSIVE ifChain(_, _)
ifChain(p, k) ==
    IF k > Len(Elements) THEN [p EXCEPT !.call.pc = "loop", !.call.ifIndex = 0]
    ELSE LET e == Elements[k]
         IN  IF ~ (p.call.insideProject /\ p.reader.cur.name = e.name)
             THEN ifChain(p, k + 1)
             ELSE IF e.reader = "readRootPath"
             THEN ifChain([p EXCEPT !.project = readRootPath(@, p.reader)], k + 1)
             ELSE IF e.reader = "set"
             THEN ifChain([p EXCEPT !.project = setMember(@, e.member, TRUE)], k + 1)
             ELSE [p EXCEPT
                     !.call.pc = "element", !.call.ifIndex = k, !.call.tools = <<>>,
                     !.project = IF e.reader \in {"readBuildDir", "readImportProject"}
                                 THEN setMember(@, e.member, "")
                                 ELSE @]

\* what a routine of TextReaders makes of the text it met
textValue(routine, text) ==
    CASE routine = "readBool" -> (text = "true")
      [] routine = "readInt" -> toInt(text)
      [] OTHER -> text

\* what readBool and readInt return at an EndElement: ret as initialised
textDefault(routine, project) ==
    CASE routine = "readBool" -> FALSE
      [] routine = "readInt" -> project.mMaxCtuDepth
      [] OTHER -> ""

\* the routine returned: the caller's assignment, then the ifs that follow
returned(p) ==
    LET e == Elements[p.call.ifIndex]
        q == IF e.member = "tools"
             THEN [p EXCEPT
                     !.project.mClangAnalyzer =
                         \E i \in 1 .. Len(p.call.tools) : p.call.tools[i] = CLANG_ANALYZER,
                     !.project.mClangTidy =
                         \E i \in 1 .. Len(p.call.tools) : p.call.tools[i] = CLANG_TIDY]
             ELSE p
    IN  ifChain(q, p.call.ifIndex + 1)

\* stringlist << text, for the member or for the local list of the tools
pushString(p, member, text) ==
    IF member = "tools" THEN [p EXCEPT !.call.tools = Append(@, text)]
    ELSE [p EXCEPT !.project = setMember(@, member, Append(p.project[member], text))]

\* readBuildDir, readImportProject, readBool, readInt, readPlatform: one turn
\* of do { switch (reader.readNext()) ... } while (1)
textReaderStep(p, file) ==
    LET e == Elements[p.call.ifIndex]
        r == readNext(p.reader, file)
        q == [p EXCEPT !.reader = r]
    IN  IF r.cur.type = "Characters"
        THEN returned([q EXCEPT !.project =
                           setMember(@, e.member, textValue(e.reader, r.cur.text))])
        ELSE IF r.cur.type = "EndElement"
        THEN IF e.reader \in {"readBool", "readInt"}
             THEN returned([q EXCEPT !.project =
                                setMember(@, e.member, textDefault(e.reader, p.project))])
             ELSE returned(q)
        ELSE q

\* readIncludeDirs, readDefines, readCheckPaths, readExcludes: one turn of
\* do { ... } while (!allRead)
nameReaderStep(p, file) ==
    LET e == Elements[p.call.ifIndex]
        r == readNext(p.reader, file)
        q == [p EXCEPT !.reader = r]
        name == attribute(r.cur, "name")
        ends == IF e.reader = "readExcludes" THEN {"ignore", "exclude"} ELSE {e.name}
    IN  IF r.cur.type = "StartElement"
        THEN IF r.cur.name = e.child /\ name # ""
             THEN pushString(q, e.member, name)
             ELSE q
        ELSE IF r.cur.type = "EndElement" /\ r.cur.name \in ends
        THEN returned(q)
        ELSE q

\* ProjectFile::readSuppressions: one turn of its loop
readSuppressions(p, file) ==
    LET r == readNext(p.reader, file)
        q == [p EXCEPT !.reader = r]
        has(a) == \E x \in r.cur.attrs : x[1] = a
        r2 == readNext(r, file)
        suppression ==
            [fileName |-> IF has("fileName") THEN attribute(r.cur, "fileName") ELSE "",
             lineNumber |-> IF has("lineNumber") THEN toInt(attribute(r.cur, "lineNumber")) ELSE 0,
             symbolName |-> IF has("symbolName") THEN attribute(r.cur, "symbolName") ELSE "",
             errorId |-> IF r2.cur.type = "Characters" THEN r2.cur.text ELSE ""]
    IN  IF r.cur.type = "StartElement"
        THEN IF r.cur.name = "suppression"
             THEN [p EXCEPT !.reader = r2,
                            !.project.mSuppressions = Append(@, suppression)]
             ELSE q
        ELSE IF r.cur.type = "EndElement" /\ r.cur.name # "suppression"
        THEN returned(q)
        ELSE q

\* ProjectFile::readStringList: one turn of its loop
readStringList(p, file) ==
    LET e == Elements[p.call.ifIndex]
        r == readNext(p.reader, file)
        q == [p EXCEPT !.reader = r]
        r2 == readNext(r, file)
    IN  IF r.cur.type = "StartElement"
        THEN IF r.cur.name = e.child
             THEN IF r2.cur.type = "Characters"
                  THEN pushString([p EXCEPT !.reader = r2], e.member, r2.cur.text)
                  ELSE [p EXCEPT !.reader = r2]
             ELSE q
        ELSE IF r.cur.type = "EndElement" /\ r.cur.name # e.child
        THEN returned(q)
        ELSE q

\* one turn of the loop of the routine that is running
elementStep(p, file) ==
    LET routine == Elements[p.call.ifIndex].reader
    IN  CASE routine \in TextReaders -> textReaderStep(p, file)
          [] routine \in NameReaders -> nameReaderStep(p, file)
          [] routine = "readSuppressions" -> readSuppressions(p, file)
          [] OTHER -> readStringList(p, file)

\* read(): one turn of while (!xmlReader.atEnd()) { switch (readNext()) ... };
\* with the reader at its end the file is closed and projectTagFound returned
readLoop(p, file) ==
    IF atEnd(p.reader)
    THEN [p EXCEPT !.call.pc = "idle", !.call.ret = p.call.projectTagFound]
    ELSE LET r == readNext(p.reader, file)
             q == [p EXCEPT !.reader = r]
         IN  IF r.cur.type = "StartElement"
             THEN ifChain(IF r.cur.name = "project"
                          THEN [q EXCEPT !.call.insideProject = TRUE,
                                         !.call.projectTagFound = TRUE]
                          ELSE q, 1)
             ELSE IF r.cur.type = "EndElement" /\ r.cur.name = "project"
             THEN [q EXCEPT !.call.insideProject = FALSE]
             ELSE q

\* -------------------------------------------------------------- SpecProject
MaxReads == 2
MaxEvents == 16

Start(name) == XmlEvent("StartElement", name, {}, "")
StartNamed(name, value) == XmlEvent("StartElement", name, { <<"name", value>> }, "")
End(name) == XmlEvent("EndElement", name, {}, "")
Chars(text) == XmlEvent("Characters", "", {}, text)

\* <name>text</name>
TextElement(name, text) == << Start(name), Chars(text), End(name) >>
\* <name><child name="value"/></name>
NameElement(name, child, value) ==
    << Start(name), StartNamed(child, value), End(child), End(name) >>
\* <name><child>text</child></name>
ListElement(name, child, text) ==
    << Start(name) >> \o TextElement(child, text) \o << End(name) >>

\* what a project file holds between <project> and </project>
Sections ==
    { << StartNamed("root", "r"), End("root") >>,
      TextElement("builddir", "b"),
      NameElement("paths", "dir", "p"),
      TextElement("importproject", "i"),
      TextElement("analyze-all-vs-configs", "true"),
      TextElement("check-headers", "false"),
      TextElement("check-unused-templates", "true"),
      << Start("check-headers"), End("check-headers") >>,
      NameElement("includedir", "dir", "inc"),
      NameElement("defines", "define", "D"),
      ListElement("undefines", "undefine", "U"),
      NameElement("exclude", "path", "x"),
      NameElement("ignore", "path", "g"),
      ListElement("libraries", "library", "lib"),
      TextElement("platform", "unix64"),
      << Start("suppressions"),
         XmlEvent("StartElement", "suppression",
                  { <<"fileName", "f">>, <<"lineNumber", "3">> }, ""),
         Chars("id"), End("suppression"), End("suppressions") >>,
      ListElement("check-unknown-function-return-values", "name", "fn"),
      << Start("check-all-function-parameter-values"),
         End("check-all-function-parameter-values") >>,
      ListElement("addons", "addon", "cert"),
      ListElement("tools", "tool", CLANG_TIDY),
      ListElement("tags", "tag", "t"),
      TextElement("max-ctu-depth", "3"),
      << Start("undefines"), Start("libraries"), End("libraries") >>
         \o TextElement("library", "lib") \o << End("libraries"), End("undefines") >>,
      NameElement("includedir", "dir", "inc") \o ListElement("tags", "tag", "t") }

\* a well-formed document
Document(section) ==
    << XmlEvent("StartDocument", "", {}, ""), Start("project") >> \o section
        \o << End("project"), XmlEvent("EndDocument", "", {}, "") >>

\* the well-formed documents, and the same cut off after any of their events
Documents ==
    UNION { { SubSeq(Document(s), 1, n) : n \in 0 .. Len(Document(s)) } : s \in Sections }

\* bool ProjectFile::read(filename): up to the first turn of the loop; a file
\* that does not open makes it return false at once
Read ==
    /\ readCall.pc = "idle" /\ readsDone < MaxReads
    /\ IF xmlFile.opens
       THEN /\ mProject' = clear(mProject)
            /\ xmlReader' = NewReader
            /\ readCall' = [NoRead EXCEPT !.pc = "loop"]
            /\ UNCHANGED << readsDone, firstRead >>
       ELSE /\ readCall' = [readCall EXCEPT !.ret = FALSE]
            /\ readsDone' = readsDone + 1
            /\ firstRead' = IF readsDone = 0 THEN mProject ELSE firstRead
            /\ UNCHANGED << mProject, xmlReader >>
    /\ UNCHANGED << xmlFile, streamVars, valueVars, callVars, queryVars, settingsVars >>

\* the state a step of the running read() leaves
Proceed(p) ==
    /\ mProject' = p.project /\ xmlReader' = p.reader /\ readCall' = p.call
    /\ readsDone' = IF p.call.pc = "idle" THEN readsDone + 1 ELSE readsDone
    /\ firstRead' = IF p.call.pc = "idle" /\ readsDone = 0 THEN p.project ELSE firstRead
    /\ UNCHANGED << xmlFile, streamVars, valueVars, callVars, queryVars, settingsVars >>

ReadState == [project |-> mProject, reader |-> xmlReader, call |-> readCall]

\* one turn of the loop of read()
ReadLoop ==
    /\ readCall.pc = "loop"
    /\ Proceed(readLoop(ReadState, xmlFile))

\* one turn of the loop of the element routine read() has called
ElementStep ==
    /\ readCall.pc = "element" /\ xmlReader.calls < MaxEvents
    /\ Proceed(elementStep(ReadState, xmlFile))

InitProject ==
    /\ Holds(EmptyStream)
    /\ mValues = NullValues /\ tokenVarId = 0
    /\ lastValue = MkValue(0) /\ lastResult = "none" /\ prevValues = NullValues
    /\ callName = "none" /\ callTok = Null /\ callPattern = <<>>
    /\ callVarid = 0 /\ callResult = "none"
    /\ queryName = "none" /\ queryArgs = <<>> /\ queryResult = Null
    /\ mTerminated = FALSE
    /\ mProject = NewProject
    /\ \E d \in Documents, o \in BOOLEAN : xmlFile = [opens |-> o, events |-> d]
    /\ xmlReader = NewReader /\ readCall = NoRead
    /\ readsDone = 0 /\ firstRead = NewProject

NextProject == Read \/ ReadLoop \/ ElementStep

SpecProject == InitProject /\ [][NextProject]_vars

\* ----------------------------------------------------------------------- C39
\* C39: read() resets all loaded project state before parsing, so a second
\* read() of the same file leaves every list and setting of the ProjectFile
\* equal to its value after the first read(), with no entry duplicated.
ReadIdempotent ==
    (readsDone = 2 /\ readCall.pc = "idle") => mProject = firstRead

\* ----------------------------------------------------------------------- C40
\* C40: read() and each element routine return after finitely many reader
\* events, also when the reader reports Invalid before the closing tag of the
\* element being read: a read() asks the reader for no more events than the
\* document holds, and one more that tells it the end.
ReadTerminates == xmlReader.calls <= Len(xmlFile.events) + 1

====
